---- MODULE Spec2Model ----
(***************************************************************************)
(* Extraction verification and data-repair pipeline of ONETECH-BACK-PROD.  *)
(*                                                                         *)
(* The module models one call of extract_data_from_image                   *)
(* (src/process_forms.py) followed by the construction of the HTTP         *)
(* response in ExtractView._handle_image_extraction                        *)
(* (src/extraction/views.py).  The generative model behind the gateway is  *)
(* the environment: every model call draws its outcome from a finite set   *)
(* of outcomes of each shape the code distinguishes.                       *)
(*                                                                         *)
(* Python values are records [t, s, n, d, rows]: t is the Python type,     *)
(* s the characters of a str (a sequence of one-character strings),        *)
(* n/d the value of a number (d = 1 for an int; the floats the code        *)
(* computes from small integers are kept as exact rationals), rows the     *)
(* elements of a list (or the single mapping of a dict value).  A Python   *)
(* dict is a function from its keys.  A str that the code only uses as a   *)
(* dictionary key or as a fixed message (a field name in an answer of the  *)
(* model, a log line) is kept as a one-token sequence.                     *)
(***************************************************************************)
EXTENDS Integers, Sequences, FiniteSets, TLC

VARIABLES
  doc_type,        \* the document type handed to extract_data_from_image
  image,           \* what PIL.Image.open does with image_path
  pc,              \* position of the call in the orchestrator
  data,            \* the record being built (the local variable data / parsed)
  attempt,         \* loop index of extract_with_confidence_retry
  best_result,     \* best_result of extract_with_confidence_retry
  best_confidence, \* best_confidence, a rational <<num, den>>
  attempts,        \* history: what each primary attempt produced
  calls,           \* history: the model calls issued, in order
  passes,          \* history: the passes entered, in order
  faults,          \* history: what went wrong in which pass
  result,          \* the mapping extract_data_from_image returns
  response,        \* the response of _handle_image_extraction
  session,         \* the BatchProcessingSession of process_pdf_pages_background
  workers,         \* page -> position and locals of its process_single_page
  database         \* the pages for which Model.create stored a document

vars == <<doc_type, image, pc, data, attempt, best_result, best_confidence,
          attempts, calls, passes, faults, result, response,
          session, workers, database>>

----------------------------------------------------------------------------
(* Python values *)

NoneV == [t |-> "none", s |-> <<>>, n |-> 0, d |-> 1, rows |-> <<>>]

Str(chars) == [t |-> "str", s |-> chars, n |-> 0, d |-> 1, rows |-> <<>>]

Num(k) == [t |-> "num", s |-> <<>>, n |-> k, d |-> 1, rows |-> <<>>]

\* a float, the rational r[1]/r[2]
Float(r) == [t |-> "num", s |-> <<>>, n |-> r[1], d |-> r[2], rows |-> <<>>]

\* True / False
Bool(b) == [t |-> "bool", s |-> <<>>, n |-> IF b THEN 1 ELSE 0, d |-> 1, rows |-> <<>>]

List(elems) == [t |-> "list", s |-> <<>>, n |-> 0, d |-> 1, rows |-> elems]

Dict(m) == [t |-> "dict", s |-> <<>>, n |-> 0, d |-> 1, rows |-> <<m>>]

EmptyDict == [k \in {} |-> NoneV]

\* d.get(k): the value under k, None when the key is absent
Get(d, k) == IF k \in DOMAIN d THEN d[k] ELSE NoneV

\* d[k] = v
Put(d, k, v) == [x \in (DOMAIN d) \cup {k} |-> IF x = k THEN v ELSE d[x]]

\* d.setdefault(k, v)
SetDefault(d, k, v) == IF k \in DOMAIN d THEN d ELSE Put(d, k, v)

\* bool(v)
Truthy(v) ==
  CASE v.t = "none" -> FALSE
    [] v.t = "str" -> v.s # <<>>
    [] v.t = "num" -> v.n # 0
    [] v.t = "bool" -> v.n # 0
    [] v.t = "list" -> v.rows # <<>>
    [] v.t = "dict" -> DOMAIN v.rows[1] # {}
    [] OTHER -> TRUE

NullWord == <<"n", "u", "l", "l">>

\* v in (None, '', 'null')
IsBlank(v) == v.t = "none" \/ (v.t = "str" /\ v.s \in {<<>>, NullWord})

\* v in (None, '', 'null', [])
IsBlankOrEmptyList(v) == IsBlank(v) \/ (v.t = "list" /\ v.rows = <<>>)

----------------------------------------------------------------------------
(* Python str methods and the regular expressions of the source, on        *)
(* sequences of characters                                                 *)

Digits == {"0", "1", "2", "3", "4", "5", "6", "7", "8", "9"}

RECURSIVE lstrip(_)
lstrip(s) == IF s # <<>> /\ Head(s) = " " THEN lstrip(Tail(s)) ELSE s

RECURSIVE rstrip(_)
rstrip(s) ==
  IF s # <<>> /\ s[Len(s)] = " " THEN rstrip(SubSeq(s, 1, Len(s) - 1)) ELSE s

strip(s) == rstrip(lstrip(s))

\* str.isdigit()
isdigit(s) == s # <<>> /\ \A i \in 1..Len(s) : s[i] \in Digits

\* re.sub(r'[^\d]', '', s)
digits_only(s) == SelectSeq(s, LAMBDA c : c \in Digits)

Uppers == <<"A", "B", "C", "D", "E", "F", "G", "H", "I", "J", "K", "L", "M", "N", "O",
           "P", "Q", "R", "S", "T", "U", "V", "W", "X", "Y", "Z", "É", "Û">>

Lowers == <<"a", "b", "c", "d", "e", "f", "g", "h", "i", "j", "k", "l", "m", "n", "o",
           "p", "q", "r", "s", "t", "u", "v", "w", "x", "y", "z", "é", "û">>

LowerOf(c) ==
  IF \E i \in 1..Len(Uppers) : Uppers[i] = c
  THEN Lowers[CHOOSE i \in 1..Len(Uppers) : Uppers[i] = c] ELSE c

UpperOf(c) ==
  IF \E i \in 1..Len(Lowers) : Lowers[i] = c
  THEN Uppers[CHOOSE i \in 1..Len(Lowers) : Lowers[i] = c] ELSE c

\* str.lower()
lower(s) == [i \in 1..Len(s) |-> LowerOf(s[i])]

\* str.upper()
upper(s) == [i \in 1..Len(s) |-> UpperOf(s[i])]

\* int(s) for a string of digits
DigitVal(c) ==
  CASE c = "0" -> 0 [] c = "1" -> 1 [] c = "2" -> 2 [] c = "3" -> 3
    [] c = "4" -> 4 [] c = "5" -> 5 [] c = "6" -> 6 [] c = "7" -> 7
    [] c = "8" -> 8 [] OTHER -> 9

RECURSIVE int_of(_)
int_of(s) ==
  IF s = <<>> THEN 0 ELSE 10 * int_of(SubSeq(s, 1, Len(s) - 1)) + DigitVal(s[Len(s)])

ROMAN_MAP ==
  [k \in 1..10 |->
     CASE k = 1 -> <<"I">> [] k = 2 -> <<"I", "I">> [] k = 3 -> <<"I", "I", "I">>
       [] k = 4 -> <<"I", "V">> [] k = 5 -> <<"V">> [] k = 6 -> <<"V", "I">>
       [] k = 7 -> <<"V", "I", "I">> [] k = 8 -> <<"V", "I", "I", "I">>
       [] k = 9 -> <<"I", "X">> [] OTHER -> <<"X">>]

VALID_ROMANS == {ROMAN_MAP[k] : k \in 1..10}

\* re.match(r'^(I{1,3}|IV|V|VI{0,3}|IX|X|[1-9]|10)$', s)
team_pattern(s) ==
  \/ s \in VALID_ROMANS
  \/ (Len(s) = 1 /\ s[1] \in Digits \ {"0"})
  \/ s = <<"1", "0">>

----------------------------------------------------------------------------
(* Model gateway and JSON envelope parser *)

\* What one model.generate_content call can do.  val is the JSON value the
\* text decodes to (kind "json"); the other kinds carry no value.
\*   raise   generate_content raises          none    it returns None
\*   notext  resp.text is None                empty   resp.text == ''
\*   garbage text that is not JSON            json    text that decodes to val
Outcome(kind, val) == [kind |-> kind, val |-> val]

FailureKinds == {"raise", "none", "notext", "empty", "garbage"}

GatewayFailures == {Outcome(k, NoneV) : k \in FailureKinds}

\* safe_model_call: the text of the response, or None.  The text is kept
\* as the outcome that carries it; NoText is the None the wrapper returns.
NoText == Outcome("none", NoneV)

safe_model_call(o) == IF o.kind \in {"raise", "none", "notext"} THEN NoText ELSE o

\* not text, for what safe_model_call returned
TextFalsy(text) == text.kind \in {"none", "empty"}

\* safe_json_parse(text, {}) on a text written with or without a fence:
\* fence is "none" for text that holds no ```json, "block" for text in
\* which JSON_FENCE_BLOCK_PATTERN finds the block text, "open" for text
\* that holds ```json and no closing fence
safe_json_parse_fenced(fence, text) ==
  IF TextFalsy(text) /\ fence = "none" THEN Dict(EmptyDict)
  ELSE IF fence = "open" THEN Dict(EmptyDict)
  ELSE IF text.kind = "json" /\ text.val.t # "none" THEN text.val ELSE Dict(EmptyDict)

\* safe_json_parse(text, {}): the decoded value, {} for no text, for
\* undecodable text and for JSON null
safe_json_parse(text) ==
  IF text.kind = "json" /\ text.val.t # "none" THEN text.val ELSE Dict(EmptyDict)

----------------------------------------------------------------------------
(* Rationals for the float arithmetic of the confidence score *)

RECURSIVE Gcd(_, _)
Gcd(a, b) == IF b = 0 THEN a ELSE Gcd(b, a % b)

Abs(x) == IF x < 0 THEN -x ELSE x

\* the rational num/den (den > 0) in lowest terms
Rat(num, den) ==
  LET g == Gcd(Abs(num), den) IN
  IF g = 0 THEN <<0, 1>> ELSE <<num \div g, den \div g>>

RatGt(a, b) == a[1] * b[2] > b[1] * a[2]

RatGe(a, b) == a[1] * b[2] >= b[1] * a[2]

----------------------------------------------------------------------------
(* Confidence-retry orchestrator: extract_with_confidence_retry *)

max_retries == 2

HighConfidence == 80

DefaultConfidence == 50

\* sum(1 for v in data.values() if v not in (None, '', 'null', []))
non_null_fields(d) == Cardinality({k \in DOMAIN d : ~IsBlankOrEmptyList(d[k])})

\* combined_confidence of one parsed mapping
combined_confidence(d) ==
  LET c == IF "extraction_confidence" \in DOMAIN d THEN d["extraction_confidence"]
           ELSE Num(DefaultConfidence)
      confidence == IF c.t = "num" THEN <<c.n, c.d>> ELSE <<DefaultConfidence, 1>>
      total_fields == Cardinality(DOMAIN d)
  IN IF total_fields > 0
     THEN Rat(confidence[1] * total_fields + 100 * non_null_fields(d) * confidence[2],
              2 * confidence[2] * total_fields)
     ELSE Rat(confidence[1], 2 * confidence[2])

\* The iteration of a loop that has lost its `break`: the best attempt is
\* kept as in retry_iteration, and the loop never stops early.
retry_iteration_no_break(o, best, bestc) ==
  LET result_text == safe_model_call(o)
      parsed == safe_json_parse(result_text)
  IN IF TextFalsy(result_text) THEN <<best, bestc, FALSE>>
     ELSE IF parsed.t # "dict" THEN <<best, bestc, FALSE>>
     ELSE LET d == parsed.rows[1]
              combined == combined_confidence(d)
              better == RatGt(combined, bestc)
          IN <<IF better THEN Put(d, "final_confidence", Float(combined)) ELSE best,
               IF better THEN combined ELSE bestc,
               FALSE>>

\* One iteration of the loop on the outcome o of its model call: the new
\* <<best_result, best_confidence, stop>>.
retry_iteration(o, best, bestc) ==
  LET result_text == safe_model_call(o)
      parsed == safe_json_parse(result_text)
  IN IF TextFalsy(result_text) THEN <<best, bestc, FALSE>>
     ELSE IF parsed.t # "dict" THEN <<best, bestc, FALSE>>
     ELSE LET d == parsed.rows[1]
              combined == combined_confidence(d)
              better == RatGt(combined, bestc)
          IN <<IF better THEN Put(d, "final_confidence", Float(combined)) ELSE best,
               IF better THEN combined ELSE bestc,
               RatGe(combined, <<HighConfidence, 1>>)>>

----------------------------------------------------------------------------
(* Numbers written as text *)

\* s.replace(a, b) for single characters
replace_char(s, a, b) == [i \in 1..Len(s) |-> IF s[i] = a THEN b ELSE s[i]]

\* s.replace(a, '') for a single character
remove_char(s, a) == SelectSeq(s, LAMBDA c : c # a)

\* position of the first "." of s, 0 when there is none
RECURSIVE dot_at(_, _)
dot_at(s, i) == IF i > Len(s) THEN 0 ELSE IF s[i] = "." THEN i ELSE dot_at(s, i + 1)

\* re.fullmatch(r"\d+(\.\d+)?", s)
unsigned_number_text(s) ==
  LET p == dot_at(s, 1) IN
  IF p = 0 THEN isdigit(s)
  ELSE isdigit(SubSeq(s, 1, p - 1)) /\ isdigit(SubSeq(s, p + 1, Len(s)))

\* re.fullmatch(r"-?\d+(\.\d+)?", s)
number_text(s) ==
  IF s # <<>> /\ Head(s) = "-" THEN unsigned_number_text(Tail(s))
  ELSE unsigned_number_text(s)

RECURSIVE Pow10(_)
Pow10(k) == IF k = 0 THEN 1 ELSE 10 * Pow10(k - 1)

\* float(s) for a text that number_text accepts, as a rational
float_of(s) ==
  LET neg == Head(s) = "-"
      u == IF neg THEN Tail(s) ELSE s
      p == dot_at(u, 1)
      whole == IF p = 0 THEN u ELSE SubSeq(u, 1, p - 1)
      frac == IF p = 0 THEN <<>> ELSE SubSeq(u, p + 1, Len(u))
      mag == Rat(int_of(whole) * Pow10(Len(frac)) + int_of(frac), Pow10(Len(frac)))
  IN IF neg THEN <<-mag[1], mag[2]>> ELSE mag

\* int(num) if num.is_integer() else num
int_or_float(r) == IF r[2] = 1 THEN Num(r[1]) ELSE Float(r)

\* _parse_number(val): a number (a value of type num) or None
_parse_number(val) ==
  IF val.t = "num" THEN val
  ELSE IF val.t = "str" /\ number_text(replace_char(strip(val.s), ",", "."))
       THEN Float(float_of(replace_char(strip(val.s), ",", ".")))
       ELSE NoneV

\* a <= b, a > b for two numbers
NumLe(a, b) == a.n * b.d <= b.n * a.d

NumGt(a, b) == a.n * b.d > b.n * a.d

----------------------------------------------------------------------------
(* Rebut passes *)

RowKeys == {"reference", "reference_fjk", "designation", "quantity", "unit", "type",
            "total_scrapped"}

\* data.get('items') or []
ItemsOf(d) == IF Truthy(Get(d, "items")) THEN Get(d, "items").rows ELSE <<>>

HIGH == <<"h", "i", "g", "h">>

MEDIUM == <<"m", "e", "d", "i", "u", "m">>

LOW == <<"l", "o", "w">>

\* whether verify_rebut_totals reaches its model call
verify_rebut_totals_calls(d) ==
  \E i \in 1..Len(ItemsOf(d)) : ~IsBlank(Get(ItemsOf(d)[i], "total_scrapped"))

\* vmap[ref] for the verdict list: the last entry for ref decides
vmap_clears(verdict, ref) ==
  LET hits == {j \in 1..Len(verdict) : Get(verdict[j], "reference") = ref} IN
  IF hits = {} THEN FALSE
  ELSE LET v == verdict[CHOOSE j \in hits : \A k \in hits : k <= j]
           has_total == Get(v, "has_total")
           confidence == IF "confidence" \in DOMAIN v THEN v["confidence"] ELSE Str(MEDIUM)
       IN has_total = Bool(FALSE) /\ confidence \in {Str(HIGH), Str(MEDIUM)}

\* verify_rebut_totals on the outcome o of its model call: the record and
\* whether the pass raised out of the function (it never does)
verify_rebut_totals(d, o) ==
  IF o.kind \in {"raise", "none", "garbage"} THEN d
  ELSE LET parsed == IF o.kind = "json" THEN o.val ELSE Dict(EmptyDict) IN
       IF parsed.t # "dict" THEN d
       ELSE LET got == parsed.rows[1]
                verdict == IF "handwritten_totals" \in DOMAIN got
                           THEN got["handwritten_totals"].rows ELSE <<>>
                items == ItemsOf(d)
            IN Put(d, "items",
                   List([i \in 1..Len(items) |->
                           IF vmap_clears(verdict, Get(items[i], "reference"))
                           THEN Put(items[i], "total_scrapped", NoneV)
                           ELSE items[i]]))

\* the blank strings of a recovered row become None
clean_row(it) ==
  [k \in DOMAIN it |->
     IF it[k].t = "str" /\ lower(strip(it[k].s)) \in {<<>>, NullWord} THEN NoneV ELSE it[k]]

\* the recovered rows that recover_rebut_missing_rows keeps
RECURSIVE cleaned_rows(_, _)
cleaned_rows(add, existing) ==
  IF add = <<>> THEN <<>>
  ELSE LET it == clean_row(Head(add))
           ref == Get(it, "reference")
           rest == cleaned_rows(Tail(add), existing)
       IN IF ref \in existing /\
             ~\E k \in RowKeys \ {"reference"} : Truthy(Get(it, k))
          THEN rest
          ELSE <<[k \in RowKeys |-> Get(it, k)]>> \o rest

\* recover_rebut_missing_rows on the outcome o of its model call
recover_rebut_missing_rows(d, o) ==
  IF o.kind \in {"raise", "none", "garbage"} THEN d
  ELSE LET parsed == IF o.kind = "json" THEN o.val ELSE Dict(EmptyDict) IN
       IF parsed.t # "dict" THEN d
       ELSE LET got == parsed.rows[1]
                add == IF "additional_items" \in DOMAIN got
                       THEN got["additional_items"].rows ELSE <<>>
                items == ItemsOf(d)
                existing == {Get(items[i], "reference") : i \in 1..Len(items)}
                cleaned == cleaned_rows(add, existing)
            IN IF cleaned # <<>> THEN Put(d, "items", List(items \o cleaned)) ELSE d

\* a key of by_ref: the trimmed reference, or the anonymous key
\* "__anon__<n>" of a row without a reference
RefKey(chars) == [anon |-> FALSE, s |-> chars, n |-> 0]

AnonKey(k) == [anon |-> TRUE, s |-> <<>>, n |-> k]

PlausibleTotalMax == 50

SparseRowFields == 2

\* a merge that takes every plausible quantity for the missing total, also
\* the one the existing row has as its quantity
take_total_unchecked(existing, new_qty) ==
  IF /\ IsBlank(Get(existing, "total_scrapped"))
     /\ new_qty.t = "num"
     /\ NumLe(new_qty, Num(PlausibleTotalMax))
  THEN Put(existing, "total_scrapped", int_or_float(<<new_qty.n, new_qty.d>>))
  ELSE existing

\* the existing row after the quantity new_qty of a sparse later row is
\* taken for its missing total
take_total(existing, new_qty) ==
  IF /\ IsBlank(Get(existing, "total_scrapped"))
     /\ new_qty.t = "num"
     /\ NumLe(new_qty, Num(PlausibleTotalMax))
     /\ _parse_number(Get(existing, "quantity")) # new_qty
  THEN Put(existing, "total_scrapped", int_or_float(<<new_qty.n, new_qty.d>>))
  ELSE existing

\* the existing row with its missing descriptor fields filled from row
fill_descriptors(existing, row) ==
  [f \in (DOMAIN existing) \cup
         {g \in {"designation", "unit", "type", "reference_fjk"} :
            IsBlank(Get(existing, g)) /\ ~IsBlank(Get(row, g))} |->
     IF IsBlank(Get(existing, f)) /\ ~IsBlank(Get(row, f)) /\
        f \in {"designation", "unit", "type", "reference_fjk"}
     THEN row[f] ELSE existing[f]]

\* the existing row after a sparse later row with the same reference
merge_sparse(existing, row) ==
  fill_descriptors(take_total(existing, _parse_number(Get(row, "quantity"))), row)

\* the existing row after a richer later row with the same reference
merge_rich(existing, row) ==
  LET fill == {f \in (DOMAIN row) \ {"reference"} :
                 IsBlank(Get(existing, f)) /\ ~IsBlank(row[f])}
  IN [f \in (DOMAIN existing) \cup fill |-> IF f \in fill THEN row[f] ELSE existing[f]]

\* the loop of deduplicate_rebut_items from row i on: items are the rows
\* (merged into in place), order is seen_order, first[k] the row that
\* by_ref holds for order[k]; raised when ref.strip() fails
RECURSIVE dedup_loop(_, _, _, _)
dedup_loop(items, i, order, first) ==
  IF i > Len(items) THEN [items |-> items, order |-> order, first |-> first, raised |-> FALSE]
  ELSE
    LET row == items[i]
        ref == Get(row, "reference")
    IN IF ~Truthy(ref) \/ (ref.t = "str" /\ strip(ref.s) = <<>>)
       THEN dedup_loop(items, i + 1, Append(order, AnonKey(Len(order))), Append(first, i))
       ELSE IF ref.t # "str"
       THEN [items |-> items, order |-> order, first |-> first, raised |-> TRUE]
       ELSE
         LET norm == RefKey(strip(ref.s))
             at == {k \in 1..Len(order) : order[k] = norm}
         IN IF at = {}
            THEN dedup_loop(items, i + 1, Append(order, norm), Append(first, i))
            ELSE
              LET j == first[CHOOSE k \in at : TRUE]
                  sparse == Cardinality({k \in DOMAIN row : ~IsBlank(row[k])}) <= SparseRowFields
                  merged == IF sparse THEN merge_sparse(items[j], row)
                            ELSE merge_rich(items[j], row)
              IN dedup_loop([items EXCEPT ![j] = merged], i + 1, order, first)

\* what deduplicate_rebut_items leaves when its loop ended as r: the rows
\* merged so far when it raised, the list rebuilt from by_ref otherwise
rebuilt(d, r) ==
  IF r.raised THEN [data |-> Put(d, "items", List(r.items)), raised |-> TRUE]
  ELSE [data |-> Put(d, "items", List([k \in 1..Len(r.order) |-> r.items[r.first[k]]])),
        raised |-> FALSE]

\* deduplicate_rebut_items: the record, and whether the function raised
deduplicate_rebut_items(d) ==
  IF ItemsOf(d) = <<>> THEN [data |-> d, raised |-> FALSE]
  ELSE rebuilt(d, dedup_loop(ItemsOf(d), 1, <<>>, <<>>))

\* the text of a number with blanks removed and a decimal comma made a dot
number_chars(s) == remove_char(replace_char(strip(s), ",", "."), " ")

ImplausibleFactor == 5

\* a row normalization that drops a total as soon as it is above the
\* plausible maximum
normalize_rebut_row_strict(it) ==
  LET q == Get(it, "quantity")
      it1 == IF q.t # "str" THEN it
             ELSE IF number_text(number_chars(q.s))
                  THEN Put(it, "quantity", int_or_float(float_of(number_chars(q.s))))
                  ELSE Put(it, "quantity", NoneV)
      ts == Get(it1, "total_scrapped")
      it2 == IF ts.t # "str" THEN it1
             ELSE IF isdigit(number_chars(ts.s))
                  THEN Put(it1, "total_scrapped", Num(int_of(number_chars(ts.s))))
                  ELSE Put(it1, "total_scrapped", NoneV)
      q2 == Get(it2, "quantity")
      ts2 == Get(it2, "total_scrapped")
  IN IF q2.t = "num" /\ ts2.t = "num" /\ NumGt(ts2, Num(PlausibleTotalMax))
     THEN Put(it2, "total_scrapped", NoneV)
     ELSE it2

\* one row of normalize_rebut_numeric_fields
normalize_rebut_row(it) ==
  LET q == Get(it, "quantity")
      it1 == IF q.t # "str" THEN it
             ELSE IF number_text(number_chars(q.s))
                  THEN Put(it, "quantity", int_or_float(float_of(number_chars(q.s))))
                  ELSE Put(it, "quantity", NoneV)
      ts == Get(it1, "total_scrapped")
      it2 == IF ts.t # "str" THEN it1
             ELSE IF isdigit(number_chars(ts.s))
                  THEN Put(it1, "total_scrapped", Num(int_of(number_chars(ts.s))))
                  ELSE Put(it1, "total_scrapped", NoneV)
      q2 == Get(it2, "quantity")
      ts2 == Get(it2, "total_scrapped")
  IN IF q2.t = "num" /\ ts2.t = "num" /\
        NumGt(ts2, [q2 EXCEPT !.n = @ * ImplausibleFactor]) /\
        NumGt(ts2, Num(PlausibleTotalMax))
     THEN Put(it2, "total_scrapped", NoneV)
     ELSE it2

\* normalize_rebut_numeric_fields
normalize_rebut_numeric_fields(d) ==
  LET items == ItemsOf(d) IN
  IF items = <<>> THEN d
  ELSE Put(d, "items", List([i \in 1..Len(items) |-> normalize_rebut_row(items[i])]))

----------------------------------------------------------------------------
(* Kosu passes *)

header_fields == <<"Equipe", "Nom Ligne", "Code ligne", "Jour", "Semaine", "Numéro OF", "Ref PF">>

HeaderFieldSet == {header_fields[i] : i \in 1..Len(header_fields)}

\* the PRE-FIX of verify_kosu_header: obvious type errors are fixed before
\* the model is asked
kosu_header_prefix(d) ==
  LET nom_ligne == Get(d, "Nom Ligne")
      code_ligne == Get(d, "Code ligne")
  IN IF Truthy(nom_ligne) /\ nom_ligne.t = "str" /\ isdigit(strip(nom_ligne.s)) /\
        (~Truthy(code_ligne) \/ code_ligne = nom_ligne)
     THEN Put(Put(d, "Code ligne", Str(strip(nom_ligne.s))), "Nom Ligne", NoneV)
     ELSE IF Truthy(code_ligne) /\ code_ligne.t = "str" /\ ~isdigit(strip(code_ligne.s)) /\
             ~Truthy(nom_ligne)
     THEN Put(Put(d, "Nom Ligne", Str(strip(code_ligne.s))), "Code ligne", NoneV)
     ELSE d

\* duplicate_issues is not empty: two header fields of the summary hold
\* the same non-blank value
duplicate_issues(summary) ==
  \E f, g \in HeaderFieldSet :
    f # g /\ ~IsBlank(Get(summary, f)) /\ Get(summary, f) = Get(summary, g)

\* whether verify_kosu_header reaches its model call; d0 is the record on
\* entry (nom_ligne and code_ligne are read before the PRE-FIX), d the
\* record after the PRE-FIX
verify_kosu_header_calls(d0, d) ==
  ~(~duplicate_issues(d) /\ Truthy(Get(d0, "Nom Ligne")) /\ Truthy(Get(d0, "Code ligne")))

\* for correction in corrections: if field in data: data[field] = correct_value
RECURSIVE apply_corrections(_, _)
apply_corrections(d, corrections) ==
  IF corrections = <<>> THEN d
  ELSE LET c == Head(corrections)
           field == Get(c, "field")
       IN apply_corrections(
            IF field.t = "str" /\ Len(field.s) = 1 /\ field.s[1] \in DOMAIN d
            THEN Put(d, field.s[1], Get(c, "correct_value")) ELSE d,
            Tail(corrections))

\* The list a pass reads under key from the parsed answer of the model:
\* result.get(key, []) if isinstance(result, dict) else [].  iterable is
\* FALSE when the value under key cannot be iterated (a JSON null), which
\* makes the for loop of the pass raise TypeError.
answer_list(o, key) ==
  LET parsed == safe_json_parse(safe_model_call(o)) IN
  IF parsed.t # "dict" \/ key \notin DOMAIN parsed.rows[1]
  THEN [iterable |-> TRUE, rows |-> <<>>]
  ELSE [iterable |-> parsed.rows[1][key].t = "list", rows |-> parsed.rows[1][key].rows]

\* verify_kosu_header after the PRE-FIX, on the outcome o of its model call
verify_kosu_header(d, o) ==
  IF TextFalsy(safe_model_call(o)) THEN [data |-> d, raised |-> FALSE]
  ELSE LET corrections == answer_list(o, "header_corrections") IN
       IF ~corrections.iterable THEN [data |-> d, raised |-> TRUE]
       ELSE [data |-> apply_corrections(d, corrections.rows), raised |-> FALSE]

\* empty_fields of recover_kosu_missing_header
empty_fields(d) == {f \in HeaderFieldSet : IsBlank(Get(d, f))}

RECURSIVE apply_recovered(_, _, _)
apply_recovered(d, recovered, empty) ==
  IF recovered = <<>> THEN d
  ELSE LET r == Head(recovered)
           field == Get(r, "field")
           value == Get(r, "value")
       IN apply_recovered(
            IF field.t = "str" /\ Len(field.s) = 1 /\ field.s[1] \in empty /\ ~IsBlank(value)
            THEN Put(d, field.s[1], value) ELSE d,
            Tail(recovered), empty)

\* whether recover_kosu_missing_header reaches its model call
recover_kosu_missing_header_calls(d) == empty_fields(d) # {}

\* recover_kosu_missing_header on the outcome o of its model call
recover_kosu_missing_header(d, o) ==
  IF TextFalsy(safe_model_call(o)) THEN [data |-> d, raised |-> FALSE]
  ELSE LET recovered == answer_list(o, "recovered_fields") IN
       IF ~recovered.iterable THEN [data |-> d, raised |-> TRUE]
       ELSE [data |-> apply_recovered(d, recovered.rows, empty_fields(d)), raised |-> FALSE]

\* data.get('Suivi horaire', [])
SuiviOf(d) == IF "Suivi horaire" \in DOMAIN d THEN d["Suivi horaire"] ELSE List(<<>>)

RECURSIVE apply_table_corrections(_, _)
apply_table_corrections(suivi, corrections) ==
  IF corrections = <<>> THEN suivi
  ELSE LET c == Head(corrections)
           row_idx == Get(c, "row_index")
           field == Get(c, "field")
           correct_value == Get(c, "correct_value")
           ok == /\ row_idx.t = "num" /\ row_idx.d = 1
                 /\ 0 <= row_idx.n /\ row_idx.n < Len(suivi)
                 /\ field.t = "str" /\ Len(field.s) = 1
                 /\ field.s[1] \in DOMAIN suivi[row_idx.n + 1]
                 /\ correct_value.t # "none"
       IN apply_table_corrections(
            IF ok THEN [suivi EXCEPT ![row_idx.n + 1] = Put(@, field.s[1], correct_value)]
            ELSE suivi,
            Tail(corrections))

\* whether verify_kosu_table_data reaches its model call
verify_kosu_table_data_calls(d) == Truthy(SuiviOf(d))

\* verify_kosu_table_data on the outcome o of its model call
verify_kosu_table_data(d, o) ==
  IF TextFalsy(safe_model_call(o)) THEN [data |-> d, raised |-> FALSE]
  ELSE LET corrections == answer_list(o, "table_corrections") IN
       IF ~corrections.iterable THEN [data |-> d, raised |-> TRUE]
       ELSE [data |-> Put(d, "Suivi horaire",
                          List(apply_table_corrections(SuiviOf(d).rows, corrections.rows))),
             raised |-> FALSE]

\* int(x) of a number: truncation toward zero
Trunc(v) == IF v.n >= 0 THEN v.n \div v.d ELSE -((-v.n) \div v.d)

\* the Roman numeral of post_process_kosu for the Equipe value
kosu_equipe(equipe) ==
  IF equipe.t = "str" /\ isdigit(strip(equipe.s))
  THEN IF int_of(strip(equipe.s)) \in 1..10 THEN Str(ROMAN_MAP[int_of(strip(equipe.s))])
       ELSE equipe
  ELSE IF equipe.t = "num" /\ Trunc(equipe) \in 1..10 THEN Str(ROMAN_MAP[Trunc(equipe)])
  ELSE equipe

\* te[k] of the 'Total / Equipe' clean-up
kosu_total(v) ==
  IF v.t = "str" /\ isdigit(number_chars(v.s)) /\ isdigit(strip(v.s))
  THEN Num(int_of(strip(v.s))) ELSE v

\* post_process_kosu
post_process_kosu(d) ==
  LET d1 == IF kosu_equipe(Get(d, "Equipe")) # Get(d, "Equipe")
            THEN Put(d, "Equipe", kosu_equipe(Get(d, "Equipe"))) ELSE d
      sh == SuiviOf(d1)
      d2 == IF sh.t = "list"
            THEN Put(d1, "Suivi horaire",
                     List(SelectSeq(sh.rows, LAMBDA r : \E k \in DOMAIN r : ~IsBlank(r[k]))))
            ELSE d1
      te == Get(d2, "Total / Equipe")
  IN IF te.t = "dict"
     THEN Put(d2, "Total / Equipe", Dict([k \in DOMAIN te.rows[1] |-> kosu_total(te.rows[1][k])]))
     ELSE d2

----------------------------------------------------------------------------
(* Validation passes *)

\* re.match(r'^\d{1,k}$', s)
digits_up_to(s, k) == isdigit(s) /\ Len(s) <= k

UapDigits == 3

JapDigits == 4

\* The rules of validate_extraction_against_template whose type is
\* 'number', the only ones that change the record: <<field, longest match>>
\* (0: any length).  The other rules only add to the local list warnings.
number_rules(dt) ==
  CASE dt = "Kosu" -> {<<"Code ligne", 0>>}
    [] dt = "NPT" -> {<<"uap", UapDigits>>}
    [] dt = "Rebut" -> {<<"jap", JapDigits>>}
    [] OTHER -> {}

\* validate_extraction_against_template: the record after the call (the
\* function returns None and drops its warnings; the record is changed in
\* place)
validate_extraction_against_template(d, dt) ==
  LET fix == {r \in number_rules(dt) :
                LET value == Get(d, r[1]) IN
                /\ Truthy(value) /\ value.t = "str"
                /\ ~(IF r[2] = 0 THEN isdigit(strip(value.s))
                     ELSE digits_up_to(strip(value.s), r[2]))
                /\ digits_only(value.s) # <<>>}
  IN [k \in DOMAIN d |->
        IF \E r \in fix : r[1] = k THEN Str(digits_only(d[k].s)) ELSE d[k]]

\* a line of the correction log: the word it starts with, the field names
\* its fixed text holds, and the value it quotes
Correction(tag, names, v) == [tag |-> Str(<<tag>>), mentions |-> Str(names), value |-> v]

RECURSIVE digits_of(_)
digits_of(k) ==
  LET last == <<CHOOSE c \in Digits : DigitVal(c) = k % 10>> IN
  IF k < 10 THEN last ELSE digits_of(k \div 10) \o last

\* str(x) for an int x
str_of_int(k) == IF k < 0 THEN <<"-">> \o digits_of(-k) ELSE digits_of(k)

\* str(v) as the validators use it: the text of a str, the digits of an int
str_of(v) == IF v.t = "str" THEN v.s ELSE IF v.t = "num" /\ v.d = 1 THEN str_of_int(v.n) ELSE <<"?">>

\* the Kosu type rule for 'Code ligne': <<record, log>>
cross_code_ligne(d, log) ==
  LET code_ligne == Get(d, "Code ligne") IN
  IF Truthy(code_ligne) /\ code_ligne.t = "str"
  THEN LET numeric_part == digits_only(strip(code_ligne.s)) IN
       IF numeric_part = <<>>
       THEN <<Put(d, "Code ligne", NoneV),
              Append(log, Correction("INVALID", <<"Code ligne">>, code_ligne))>>
       ELSE IF numeric_part # strip(code_ligne.s)
       THEN <<Put(d, "Code ligne", Str(numeric_part)),
              Append(log, Correction("CLEANED", <<"Code ligne">>, code_ligne))>>
       ELSE <<d, log>>
  ELSE IF Truthy(code_ligne) /\ code_ligne.t # "num"
  THEN <<Put(d, "Code ligne", NoneV),
         Append(log, Correction("INVALID", <<"Code ligne">>, code_ligne))>>
  ELSE <<d, log>>

\* the Kosu type rule for 'Nom Ligne'; nom_ligne was read on entry
cross_nom_ligne(d, log, nom_ligne) ==
  IF Truthy(nom_ligne) /\
     ((nom_ligne.t = "str" /\ isdigit(strip(nom_ligne.s))) \/ nom_ligne.t = "num")
  THEN LET moved == ~Truthy(Get(d, "Code ligne"))
           text == IF nom_ligne.t = "str" THEN strip(nom_ligne.s) ELSE str_of(nom_ligne)
           log1 == Append(log, Correction("INVALID", <<"Nom Ligne">>, nom_ligne))
       IN <<Put(IF moved THEN Put(d, "Code ligne", Str(text)) ELSE d, "Nom Ligne", NoneV),
            IF moved
            THEN Append(log1, Correction("MOVED", <<"Nom Ligne", "Code ligne">>, nom_ligne))
            ELSE log1>>
  ELSE <<d, log>>

\* the same value in 'Nom Ligne' and 'Code ligne' after the type rules
cross_same_line(d, log) ==
  LET nom_ligne == Get(d, "Nom Ligne")
      code_ligne == Get(d, "Code ligne")
  IN IF Truthy(nom_ligne) /\ Truthy(code_ligne) /\ nom_ligne.t = "str" /\
        code_ligne.t = "str" /\ lower(strip(nom_ligne.s)) = lower(strip(code_ligne.s))
     THEN <<Put(d, "Nom Ligne", NoneV),
            Append(log, Correction("DUPLICATE", <<"Nom Ligne", "Code ligne">>, nom_ligne))>>
     ELSE <<d, log>>

other_header_fields == <<"Equipe", "Jour", "Semaine", "Numéro OF", "Ref PF">>

\* the duplicate check left out
cross_duplicates_left_out(d, log, i, seen) == <<d, log>>

\* the duplicate check over other_header_fields from field i on; seen
\* are the fields that hold a first occurrence (field_values)
RECURSIVE cross_duplicates(_, _, _, _)
cross_duplicates(d, log, i, seen) ==
  IF i > Len(other_header_fields) THEN <<d, log>>
  ELSE LET field == other_header_fields[i]
           value == Get(d, field)
       IN IF Truthy(value) /\ value.t = "str" /\ strip(value.s) # <<>>
          THEN LET same == {k \in 1..Len(seen) :
                              lower(strip(d[seen[k]].s)) = lower(strip(value.s))}
               IN IF same # {}
                  THEN cross_duplicates(
                         Put(d, field, NoneV),
                         Append(log, Correction("DUPLICATE VALUE",
                                                <<seen[CHOOSE k \in same : TRUE], field>>, value)),
                         i + 1, seen)
                  ELSE cross_duplicates(d, log, i + 1, Append(seen, field))
          ELSE cross_duplicates(d, log, i + 1, seen)

\* the team identifier rule
cross_equipe(d, log) ==
  LET equipe == Get(d, "Equipe") IN
  IF Truthy(equipe) /\ equipe.t = "str" /\ ~team_pattern(strip(equipe.s))
  THEN <<Put(d, "Equipe", NoneV), Append(log, Correction("INVALID TEAM ID", <<>>, equipe))>>
  ELSE <<d, log>>

MinWeek == 1

MaxWeek == 53

\* the week number rule
cross_semaine(d, log) ==
  LET semaine == Get(d, "Semaine") IN
  IF Truthy(semaine) /\ semaine.t = "str" /\ digits_only(semaine.s) # <<>> /\
     (int_of(digits_only(semaine.s)) < MinWeek \/ int_of(digits_only(semaine.s)) > MaxWeek)
  THEN <<Put(d, "Semaine", NoneV), Append(log, Correction("INVALID WEEK", <<>>, semaine))>>
  ELSE <<d, log>>

\* the NPT rule for uap and the Rebut rule for jap (k digits at most)
cross_code(d, log, field, k, cleaned, invalid) ==
  LET v == Get(d, field) IN
  IF Truthy(v) /\ v.t = "str" /\ ~digits_up_to(strip(v.s), k)
  THEN IF digits_only(v.s) # <<>>
       THEN <<Put(d, field, Str(digits_only(v.s))), Append(log, Correction(cleaned, <<>>, v))>>
       ELSE <<Put(d, field, NoneV), Append(log, Correction(invalid, <<>>, v))>>
  ELSE <<d, log>>

\* the next rule applied to the <<record, log>> r of the rules before it
Then(r, rule(_, _)) == rule(r[1], r[2])

\* the end of cross_validate_fields: the log goes into the record
with_corrections(d, log) ==
  IF log # <<>> THEN Put(d, "cross_validation_corrections", List(log)) ELSE d

\* cross_validate_fields
cross_validate_fields(d, dt) ==
  CASE dt = "Kosu" ->
         Then(Then(Then(Then(Then(Then(cross_code_ligne(d, <<>>),
                                       LAMBDA x, l : cross_nom_ligne(x, l, Get(d, "Nom Ligne"))),
                                  cross_same_line),
                             LAMBDA x, l : cross_duplicates(x, l, 1, <<>>)),
                        cross_equipe),
                   cross_semaine),
              with_corrections)
    [] dt = "NPT" ->
         Then(cross_code(d, <<>>, "uap", UapDigits, "CLEANED UAP", "INVALID UAP"),
              with_corrections)
    [] dt = "Rebut" ->
         Then(cross_code(d, <<>>, "jap", JapDigits, "CLEANED JAP", "INVALID JAP"),
              with_corrections)
    [] OTHER -> d

\* the words of a log line that make the orchestrator look for field names
\* in it: 'DUPLICATE VALUE' in c or 'INVALID' in c or 'SWAPPED' in c
FlaggedTags == {"DUPLICATE VALUE", "INVALID", "INVALID TEAM ID", "INVALID WEEK",
                "INVALID UAP", "INVALID JAP"}

ReextractableFields == {"Equipe", "Nom Ligne", "Code ligne", "uap", "jap"}

\* problem_fields of extract_data_from_image, in the order the calls are
\* logged.  No pass writes the key 'validation_warnings'.
problem_fields(d) ==
  LET log == Get(d, "cross_validation_corrections").rows
      named == {f \in {"Equipe", "Nom Ligne", "Code ligne"} :
                  \E i \in 1..Len(log) :
                    /\ log[i]["tag"].s[1] \in FlaggedTags
                    /\ \E j \in 1..Len(log[i]["mentions"].s) : log[i]["mentions"].s[j] = f}
  IN SelectSeq(header_fields, LAMBDA f : f \in named)

\* a re-extraction that writes whatever the answer holds under the field
reextract_field_unchecked(d, field, o) ==
  LET field_data == safe_json_parse(safe_model_call(o)) IN
  IF field_data.t = "dict" /\ field \in DOMAIN field_data.rows[1]
  THEN Put(d, field, field_data.rows[1][field])
  ELSE d

\* targeted_field_reextraction for one flagged field, on the outcome o of
\* the model call for that field
reextract_field(d, field, o) ==
  LET field_result == safe_model_call(o)
      field_data == safe_json_parse(field_result)
  IN IF TextFalsy(field_result) \/ field_data.t # "dict" THEN d
     ELSE IF field \in DOMAIN field_data.rows[1] /\ ~IsBlank(field_data.rows[1][field]) /\
             Get(d, field) # field_data.rows[1][field]
          THEN Put(d, field, field_data.rows[1][field])
          ELSE d

\* targeted_field_reextraction: fields are the flagged fields, os[i] the
\* outcome of the call for fields[i]; fields without a prompt are skipped
RECURSIVE targeted_field_reextraction(_, _, _)
targeted_field_reextraction(d, fields, os) ==
  IF fields = <<>> THEN d
  ELSE targeted_field_reextraction(
         IF Head(fields) \in ReextractableFields THEN reextract_field(d, Head(fields), Head(os))
         ELSE d,
         Tail(fields), Tail(os))

Issue(text, v) == [tag |-> Str(<<text>>), value |-> v]

\* the duplicate check of final_sanity_check over Nom Ligne, Code ligne,
\* Equipe from field i on
critical_fields == <<"Nom Ligne", "Code ligne", "Equipe">>

RECURSIVE final_duplicates(_, _, _, _)
final_duplicates(d, d0, log, i) ==
  IF i > Len(critical_fields) THEN <<d, log>>
  ELSE LET field == critical_fields[i]
           value == Get(d0, field)
           earlier == {k \in 1..(i - 1) :
                         LET w == Get(d0, critical_fields[k]) IN
                         /\ Truthy(w) /\ w.t = "str" /\ strip(w.s) # <<>>
                         /\ lower(strip(w.s)) = lower(strip(value.s))}
       IN IF Truthy(value) /\ value.t = "str" /\ strip(value.s) # <<>> /\ earlier # {}
          THEN final_duplicates(Put(d, field, NoneV), d0,
                                Append(log, Issue("CRITICAL: Duplicate value", value)), i + 1)
          ELSE final_duplicates(d, d0, log, i + 1)

\* final_sanity_check
final_sanity_check(d, dt) ==
  LET r ==
    CASE dt = "Kosu" ->
           LET code_ligne == Get(d, "Code ligne")
               nom_ligne == Get(d, "Nom Ligne")
               bad_code == Truthy(code_ligne) /\
                           IF code_ligne.t = "str" THEN ~isdigit(strip(code_ligne.s))
                           ELSE code_ligne.t # "num"
               d1 == IF bad_code THEN Put(d, "Code ligne", NoneV) ELSE d
               l1 == IF bad_code THEN <<Issue("CRITICAL: Code ligne", code_ligne)>> ELSE <<>>
               bad_nom == Truthy(nom_ligne) /\
                          IF nom_ligne.t = "str" THEN isdigit(strip(nom_ligne.s))
                          ELSE nom_ligne.t = "num"
               d2 == IF bad_nom THEN Put(d1, "Nom Ligne", NoneV) ELSE d1
               l2 == IF bad_nom THEN Append(l1, Issue("CRITICAL: Nom Ligne", nom_ligne)) ELSE l1
               e == final_duplicates(d2, d2, l2, 1)
               equipe == Get(e[1], "Equipe")
           IN IF Truthy(equipe) /\ ~team_pattern(strip(str_of(equipe)))
              THEN <<Put(e[1], "Equipe", NoneV), Append(e[2], Issue("INVALID: Equipe", equipe))>>
              ELSE e
      [] dt = "NPT" ->
           IF Truthy(Get(d, "uap")) /\ ~digits_up_to(strip(str_of(Get(d, "uap"))), UapDigits)
           THEN <<Put(d, "uap", NoneV), <<Issue("INVALID: UAP", Get(d, "uap"))>>>>
           ELSE <<d, <<>>>>
      [] dt = "Rebut" ->
           IF Truthy(Get(d, "jap")) /\ ~digits_up_to(strip(str_of(Get(d, "jap"))), JapDigits)
           THEN <<Put(d, "jap", NoneV), <<Issue("INVALID: JAP", Get(d, "jap"))>>>>
           ELSE <<d, <<>>>>
      [] OTHER -> <<d, <<>>>>
  IN IF r[2] # <<>> THEN Put(r[1], "final_sanity_issues", List(r[2])) ELSE r[1]

----------------------------------------------------------------------------
(* Date normalization *)

\* the month names of the French date pattern, with their numbers
french_months ==
  {<<<<"j", "a", "n", "v", "i", "e", "r">>, 1>>,
   <<<<"f", "é", "v", "r", "i", "e", "r">>, 2>>,
   <<<<"f", "e", "v", "r", "i", "e", "r">>, 2>>,
   <<<<"m", "a", "r", "s">>, 3>>,
   <<<<"a", "v", "r", "i", "l">>, 4>>,
   <<<<"m", "a", "i">>, 5>>,
   <<<<"j", "u", "i", "n">>, 6>>,
   <<<<"j", "u", "i", "l", "l", "e", "t">>, 7>>,
   <<<<"a", "o", "û", "t">>, 8>>,
   <<<<"a", "o", "u", "t">>, 8>>,
   <<<<"s", "e", "p", "t", "e", "m", "b", "r", "e">>, 9>>,
   <<<<"o", "c", "t", "o", "b", "r", "e">>, 10>>,
   <<<<"n", "o", "v", "e", "m", "b", "r", "e">>, 11>>,
   <<<<"d", "é", "c", "e", "m", "b", "r", "e">>, 12>>,
   <<<<"d", "e", "c", "e", "m", "b", "r", "e">>, 12>>}

\* runs of blanks made one blank (for the \s+ of the patterns)
RECURSIVE squeeze(_)
squeeze(s) ==
  IF Len(s) < 2 THEN s
  ELSE IF s[1] = " " /\ s[2] = " " THEN squeeze(Tail(s))
  ELSE <<s[1]>> \o squeeze(Tail(s))

\* the places of s that hold no digit
non_digits(s) == {i \in 1..Len(s) : s[i] \notin Digits}

\* The three groups of s when s is <digits><sep><digits><sep><digits> with
\* both separators in seps, <<>> otherwise
three_groups(s, seps) ==
  LET nd == non_digits(s) IN
  IF Cardinality(nd) # 2 \/ \E i \in nd : s[i] \notin seps THEN <<>>
  ELSE LET p == CHOOSE i \in nd : \A j \in nd : i <= j
           q == CHOOSE i \in nd : \A j \in nd : j <= i
       IN IF p = 1 \/ q = p + 1 \/ q = Len(s) THEN <<>>
          ELSE <<SubSeq(s, 1, p - 1), SubSeq(s, p + 1, q - 1), SubSeq(s, q + 1, Len(s))>>

\* <<day, month, year>> read from date_str by the first (and only) pattern
\* of date_patterns that matches it, <<>> when none matches; slash, dot and
\* blank are the groups of date_str for each separator, any the groups for
\* '/', '-' or '.', words is date_str with runs of blanks made one
matched_fields(date_str, slash, dot, blank, any, words) ==
  LET sp == {i \in 1..Len(words) : words[i] = " "}
  IN IF slash # <<>> /\ Len(slash[1]) <= 2 /\ Len(slash[2]) <= 2 /\ Len(slash[3]) = 4
     THEN <<int_of(slash[1]), int_of(slash[2]), int_of(slash[3])>>
     ELSE IF dot # <<>> /\ Len(dot[1]) <= 2 /\ Len(dot[2]) <= 2 /\ Len(dot[3]) = 4
     THEN <<int_of(dot[1]), int_of(dot[2]), int_of(dot[3])>>
     ELSE IF blank # <<>> /\ Len(blank[1]) <= 2 /\ Len(blank[2]) <= 2 /\ Len(blank[3]) = 4
     THEN <<int_of(blank[1]), int_of(blank[2]), int_of(blank[3])>>
     ELSE IF any # <<>> /\ Len(any[1]) = 4 /\ Len(any[2]) <= 2 /\ Len(any[3]) <= 2
     THEN <<int_of(any[3]), int_of(any[2]), int_of(any[1])>>
     ELSE IF any # <<>> /\ Len(any[1]) <= 2 /\ Len(any[2]) <= 2 /\ Len(any[3]) = 2
     THEN <<int_of(any[1]), int_of(any[2]),
            IF int_of(any[3]) < 50 THEN 2000 + int_of(any[3]) ELSE 1900 + int_of(any[3])>>
     ELSE IF isdigit(date_str) /\ Len(date_str) = 8
     THEN <<int_of(SubSeq(date_str, 1, 2)), int_of(SubSeq(date_str, 3, 4)),
            int_of(SubSeq(date_str, 5, 8))>>
     ELSE IF Cardinality(sp) = 2
     THEN LET p == CHOOSE i \in sp : \A j \in sp : i <= j
              q == CHOOSE i \in sp : \A j \in sp : j <= i
              day == SubSeq(words, 1, p - 1)
              name == lower(SubSeq(words, p + 1, q - 1))
              year == SubSeq(words, q + 1, Len(words))
          IN IF isdigit(day) /\ Len(day) <= 2 /\ isdigit(year) /\ Len(year) = 4 /\
                \E m \in french_months : m[1] = name
             THEN <<int_of(day), (CHOOSE m \in french_months : m[1] = name)[2], int_of(year)>>
             ELSE <<>>
     ELSE <<>>

\* date_patterns applied to date_str
date_fields(date_str) ==
  matched_fields(date_str, three_groups(date_str, {"/", "-"}), three_groups(date_str, {"."}),
                 three_groups(squeeze(date_str), {" "}),
                 IF three_groups(date_str, {"/", "-"}) # <<>>
                 THEN three_groups(date_str, {"/", "-"}) ELSE three_groups(date_str, {"."}),
                 squeeze(date_str))

MinYear == 1900

MaxYear == 2100

\* a calendar in which every month has 31 days
days_in_month_all(month, year) == 31

\* the days of a month: what datetime(year, month, day) accepts
days_in_month(month, year) ==
  IF month \in {4, 6, 9, 11} THEN 30
  ELSE IF month = 2
       THEN IF year % 4 = 0 /\ (year % 100 # 0 \/ year % 400 = 0) THEN 29 ELSE 28
       ELSE 31

\* f"{k:0{w}d}"
RECURSIVE zero_pad(_, _)
zero_pad(s, w) == IF Len(s) >= w THEN s ELSE zero_pad(<<"0">> \o s, w)

\* a date written without leading zeros
normalized_date_unpadded(date_str, f) ==
  IF f # <<>> /\ f[1] \in 1..31 /\ f[2] \in 1..12 /\ f[3] \in MinYear..MaxYear /\
     f[1] <= days_in_month(f[2], f[3])
  THEN Str(digits_of(f[1]) \o <<"/">> \o digits_of(f[2]) \o <<"/">> \o digits_of(f[3]))
  ELSE IF isdigit(date_str) /\ Len(date_str) <= 5 THEN Str(date_str)
  ELSE NoneV

\* The text normalize_date_value returns for date_str, of which f are the
\* fields a pattern read: DD/MM/YYYY, the ambiguous short number kept as
\* it is, or None
normalized_date(date_str, f) ==
  IF f # <<>> /\ f[1] \in 1..31 /\ f[2] \in 1..12 /\ f[3] \in MinYear..MaxYear /\
     f[1] <= days_in_month(f[2], f[3])
  THEN Str(zero_pad(digits_of(f[1]), 2) \o <<"/">> \o zero_pad(digits_of(f[2]), 2)
           \o <<"/">> \o zero_pad(digits_of(f[3]), 4))
  ELSE IF isdigit(date_str) /\ Len(date_str) <= 5 THEN Str(date_str)
  ELSE NoneV

\* normalize_date_value
normalize_date_value(date_value) ==
  IF IsBlank(date_value) \/ strip(str_of(date_value)) = <<>> THEN NoneV
  ELSE normalized_date(strip(str_of(date_value)), date_fields(strip(str_of(date_value))))

\* the value a date field holds after normalize_all_dates: the normalized
\* text, the original when there is none
kept_date(original_value, normalized_value) ==
  IF normalized_value # NoneV THEN normalized_value ELSE original_value

\* normalize_all_dates: header.date of Rebut and NPT, 'Date du document'
\* of Kosu; a value that does not normalize is kept
normalize_all_dates(d, dt) ==
  IF dt \in {"Rebut", "NPT"}
  THEN IF Get(d, "header").t = "dict" /\ "date" \in DOMAIN Get(d, "header").rows[1]
       THEN Put(d, "header",
                Dict(Put(d["header"].rows[1], "date",
                         kept_date(d["header"].rows[1]["date"],
                                   normalize_date_value(d["header"].rows[1]["date"])))))
       ELSE d
  ELSE IF dt = "Kosu" /\ "Date du document" \in DOMAIN d
  THEN Put(d, "Date du document",
           kept_date(d["Date du document"], normalize_date_value(d["Date du document"])))
  ELSE d

----------------------------------------------------------------------------
(* Défauts passes *)

Letters == {Uppers[i] : i \in 1..Len(Uppers)} \cup {Lowers[i] : i \in 1..Len(Lowers)}

AsciiUppers == {Uppers[i] : i \in 1..26}

\* str.title()
title(s) ==
  [i \in 1..Len(s) |->
     IF i = 1 \/ s[i - 1] \notin Letters THEN UpperOf(s[i]) ELSE LowerOf(s[i])]

DefautsDays == {<<"L", "u", "n">>, <<"M", "a", "r">>, <<"M", "e", "r">>, <<"J", "e", "u">>, <<"V", "e", "n">>, <<"S", "a", "m">>}

DefautsStations == {<<"E", "1">>, <<"E", "2">>, <<"E", "3">>}

\* the characters X, check mark and heavy check mark
TallyMarks == {"X", "U+2713", "U+2714"}

\* a count of the raw mark as it is written, lower-case tally marks not
\* counted
normalize_defauts_mark_cased(raw) ==
  IF raw.t \in {"num", "bool"} THEN Num(Trunc(raw))
  ELSE IF raw.t # "str" THEN NoneV
  ELSE LET s == strip(raw.s) IN
       IF s = <<>> THEN NoneV
       ELSE IF isdigit(s) THEN Num(int_of(s))
       ELSE IF s[Len(s)] = "X" /\ isdigit(SubSeq(s, 1, Len(s) - 1))
            THEN Num(int_of(SubSeq(s, 1, Len(s) - 1)))
       ELSE IF \A i \in 1..Len(s) : s[i] \in TallyMarks THEN Num(Len(s))
       ELSE NoneV

\* normalize_defauts_mark: the count of a raw mark, or None
normalize_defauts_mark(raw) ==
  IF raw.t \in {"num", "bool"} THEN Num(Trunc(raw))
  ELSE IF raw.t # "str" THEN NoneV
  ELSE LET s == upper(strip(raw.s)) IN
       IF s = <<>> THEN NoneV
       ELSE IF isdigit(s) THEN Num(int_of(s))
       ELSE IF s[Len(s)] = "X" /\ isdigit(SubSeq(s, 1, Len(s) - 1))
            THEN Num(int_of(SubSeq(s, 1, Len(s) - 1)))
       ELSE IF \A i \in 1..Len(s) : s[i] \in TallyMarks THEN Num(Len(s))
       ELSE NoneV

\* one record of normalize_defauts_records
normalize_defauts_record(r) ==
  LET code == Get(r, "code")
      day == Get(r, "day")
      station == Get(r, "station")
  IN [k \in {"code", "day", "station", "raw_mark", "count"} |->
        CASE k = "code" -> IF code.t = "str" THEN Str(strip(code.s)) ELSE code
          [] k = "day" ->
               IF day.t # "str" THEN day
               ELSE IF upper(title(strip(day.s))) \in {upper(x) : x \in DefautsDays}
                    THEN Str(CHOOSE x \in DefautsDays : upper(x) = upper(title(strip(day.s))))
                    ELSE Str(title(strip(day.s)))
          [] k = "station" -> IF station.t = "str" THEN Str(upper(strip(station.s))) ELSE station
          [] k = "raw_mark" -> Get(r, "raw_mark")
          [] OTHER -> normalize_defauts_mark(Get(r, "raw_mark"))]

\* normalize_defauts_records
normalize_defauts_records(records) ==
  [i \in 1..Len(records) |-> normalize_defauts_record(records[i])]

MaxCodeLen == 10

MaxMarkCount == 50

\* re.fullmatch(r"[A-Z0-9\-]{1,10}", c)
code_pattern(c) ==
  Len(c) \in 1..MaxCodeLen /\ \A i \in 1..Len(c) : c[i] \in AsciiUppers \cup Digits \cup {"-"}

\* the record that refine_defauts_records keeps for r
refined_record(r) ==
  LET day == Get(r, "day")
      station == Get(r, "station")
      code == Get(r, "code")
      count == Get(r, "count")
      r1 == IF count.t = "num" /\ count.d = 1 /\ count.n > MaxMarkCount
            THEN Put(r, "count", NoneV) ELSE r
  IN [k \in (DOMAIN r1) \cup {"code", "day", "station"} |->
        CASE k = "day" -> IF day.t = "none" \/ (day.t = "str" /\ day.s \in DefautsDays)
                          THEN day ELSE NoneV
          [] k = "station" ->
               IF station.t = "none" \/ (station.t = "str" /\ station.s \in DefautsStations)
               THEN station ELSE NoneV
          [] k = "code" ->
               IF code.t # "str" THEN code
               ELSE IF code_pattern(upper(strip(code.s))) THEN Str(upper(strip(code.s)))
               ELSE NoneV
          [] OTHER -> r1[k]]

\* the key (code, day, station, raw) under which refine_defauts_records
\* has seen a record
refine_key(r) ==
  <<refined_record(r)["code"], refined_record(r)["day"], refined_record(r)["station"],
    Get(r, "raw_mark")>>

\* refine_defauts_records from record i on
RECURSIVE refine_loop(_, _, _)
refine_loop(records, i, seen) ==
  IF i > Len(records) THEN <<>>
  ELSE LET r == records[i] IN
       IF (IsBlank(Get(r, "raw_mark")) /\ IsBlank(Get(r, "count"))) \/ refine_key(r) \in seen
       THEN refine_loop(records, i + 1, seen)
       ELSE <<refined_record(r)>> \o refine_loop(records, i + 1, seen \cup {refine_key(r)})

refine_defauts_records(records) == refine_loop(records, 1, {})

\* the characters in code point order
CharOrder ==
  <<" ", "-", ".", "/", "0", "1", "2", "3", "4", "5", "6", "7", "8", "9", "A", "B", "C",
    "D", "E", "F", "G", "H", "I", "J", "K", "L", "M", "N", "O", "P", "Q", "R", "S", "T",
    "U", "V", "W", "X", "Y", "Z", "a", "b", "c", "d", "e", "f", "g", "h", "i", "j", "k",
    "l", "m", "n", "o", "p", "q", "r", "s", "t", "u", "v", "w", "x", "y", "z", "É", "Û",
    "é", "û", "U+2713", "U+2714">>

CodePoint(c) ==
  IF \E i \in 1..Len(CharOrder) : CharOrder[i] = c
  THEN CHOOSE i \in 1..Len(CharOrder) : CharOrder[i] = c ELSE 0

\* a < b for two str
RECURSIVE str_lt(_, _)
str_lt(a, b) ==
  IF b = <<>> THEN FALSE
  ELSE IF a = <<>> THEN TRUE
  ELSE IF Head(a) = Head(b) THEN str_lt(Tail(a), Tail(b))
  ELSE CodePoint(Head(a)) < CodePoint(Head(b))

\* the keys (day, station) of the records that carry a count
total_keys(records) ==
  {<<Get(records[i], "day"), Get(records[i], "station")>> :
     i \in {j \in 1..Len(records) : Get(records[j], "count").t # "none"}}

\* sorted(totals.items()) raises TypeError: it has to compare None with a
\* str, in the day of two keys or in the station of two keys of one day
unorderable(keys) ==
  \E a, b \in keys :
    \/ a[1].t # b[1].t
    \/ (a[1] = b[1] /\ a[2].t # b[2].t)

\* (day, station) < (day, station) for keys that can be ordered
key_lt(a, b) ==
  IF a[1] # b[1] THEN str_lt(a[1].s, b[1].s) ELSE str_lt(a[2].s, b[2].s)

RECURSIVE sorted_keys(_)
sorted_keys(keys) ==
  IF keys = {} THEN <<>>
  ELSE LET m == CHOOSE a \in keys : \A b \in keys \ {a} : key_lt(a, b)
       IN <<m>> \o sorted_keys(keys \ {m})

RECURSIVE sum_counts(_, _, _)
sum_counts(records, i, key) ==
  IF i > Len(records) THEN 0
  ELSE (IF Get(records[i], "count").t # "none" /\
           <<Get(records[i], "day"), Get(records[i], "station")>> = key
        THEN Trunc(Get(records[i], "count")) ELSE 0) + sum_counts(records, i + 1, key)

\* compute_defauts_daily_totals: the totals, and whether sorted() raised
compute_defauts_daily_totals(records) ==
  LET keys == total_keys(records) IN
  IF unorderable(keys) THEN [raised |-> TRUE, totals |-> <<>>]
  ELSE [raised |-> FALSE,
        totals |-> [i \in 1..Cardinality(keys) |->
                      [k \in {"day", "station", "total_defauts"} |->
                         CASE k = "day" -> sorted_keys(keys)[i][1]
                           [] k = "station" -> sorted_keys(keys)[i][2]
                           [] OTHER -> Num(sum_counts(records, 1, sorted_keys(keys)[i]))]]]

\* data.get('recorded_defects') or []
DefectsOf(d) ==
  IF Truthy(Get(d, "recorded_defects")) THEN Get(d, "recorded_defects").rows ELSE <<>>

\* the parsed answer of a Défauts pass: txt = resp.text or '{}', then
\* json.loads; failed when the try block of the pass raises before parsed
\* is a mapping
defauts_answer(o) ==
  IF o.kind \in {"raise", "none", "garbage"} THEN [failed |-> TRUE, got |-> EmptyDict]
  ELSE IF o.kind = "json" /\ o.val.t # "dict" THEN [failed |-> TRUE, got |-> EmptyDict]
  ELSE [failed |-> FALSE, got |-> IF o.kind = "json" THEN o.val.rows[1] ELSE EmptyDict]

\* keep_map.get(i) is not False
kept(verified, i) ==
  LET hits == {j \in 1..Len(verified) : Get(verified[j], "index") = Num(i)} IN
  hits = {} \/ Get(verified[CHOOSE j \in hits : \A k \in hits : k <= j], "keep") # Bool(FALSE)

\* the places of recs that verify_defauts_marks keeps
RECURSIVE kept_from(_, _, _)
kept_from(recs, verified, i) ==
  IF i > Len(recs) THEN <<>>
  ELSE (IF kept(verified, i - 1) THEN <<recs[i]>> ELSE <<>>) \o kept_from(recs, verified, i + 1)

\* whether verify_defauts_marks reaches its model call
verify_defauts_marks_calls(d) == DefectsOf(d) # <<>>

\* verify_defauts_marks on the outcome o of its model call
verify_defauts_marks(d, o) ==
  LET a == defauts_answer(o) IN
  IF a.failed THEN d
  ELSE Put(d, "recorded_defects", List(kept_from(DefectsOf(d), Get(a.got, "verified").rows, 1)))

\* the additional marks that recover_defauts_missing_marks keeps
additional_marks(add, recs) ==
  SelectSeq(add, LAMBDA r :
    /\ ~\E i \in 1..Len(recs) :
         <<Get(recs[i], "code"), Get(recs[i], "day"), Get(recs[i], "station")>> =
         <<Get(r, "code"), Get(r, "day"), Get(r, "station")>>
    /\ ~IsBlank(Get(r, "raw_mark")))

\* recover_defauts_missing_marks on the outcome o of its model call
recover_defauts_missing_marks(d, o) ==
  LET a == defauts_answer(o)
      cleaned == additional_marks(Get(a.got, "additional").rows, DefectsOf(d))
  IN IF a.failed \/ cleaned = <<>> THEN d
     ELSE Put(d, "recorded_defects", List(DefectsOf(d) \o cleaned))

DefautsHeaderKeys ==
  {"uap", "ligne", "n_poste", "operation", "code_famillier", "semaine", "annee", "mois"}

\* extract_defauts_multi from the parsed primary answer to its first
\* verification pass: document_type and the two setdefault calls
defauts_ensure_keys(parsed) ==
  SetDefault(
    SetDefault(Put(parsed, "document_type", Str(<<"Défauts">>)),
               "entry_header", Dict([k \in DefautsHeaderKeys |-> NoneV])),
    "recorded_defects", List(<<>>))

\* extract_defauts_multi after its passes: normalize, refine, totals and
\* the payload it returns; raised when one of them raises
defauts_finish(d) ==
  LET recorded == IF "recorded_defects" \in DOMAIN d THEN d["recorded_defects"] ELSE List(<<>>)
      norm == refine_defauts_records(normalize_defauts_records(recorded.rows))
      totals == compute_defauts_daily_totals(norm)
  IN IF recorded.t # "list" \/ totals.raised
     THEN [raised |-> TRUE, data |-> d, marks |-> 0]
     ELSE [raised |-> FALSE,
           data |-> Put(Put(Put(d, "recorded_defects", List(norm)), "defects_log", List(norm)),
                        "summary_data", Dict([k \in {"daily_totals"} |-> List(totals.totals)])),
           marks |-> Len(norm)]

----------------------------------------------------------------------------
(* Response post-processing: src/extraction/utils.py *)

\* s.replace(sub, '')
RECURSIVE remove_sub(_, _)
remove_sub(s, sub) ==
  IF Len(s) < Len(sub) THEN s
  ELSE IF SubSeq(s, 1, Len(sub)) = sub THEN remove_sub(SubSeq(s, Len(sub) + 1, Len(s)), sub)
  ELSE <<Head(s)>> \o remove_sub(Tail(s), sub)

MaxUap == 1000

MaxUapLen == 3

\* a normalization that keeps however many digits the text holds
normalize_uap_long(value) ==
  IF value.t = "none" THEN NoneV
  ELSE IF value.t \in {"num", "bool"}
  THEN IF 0 < Trunc(value) /\ Trunc(value) < MaxUap THEN Str(str_of_int(Trunc(value))) ELSE NoneV
  ELSE LET s == digits_only(strip(remove_sub(upper(strip(str_of(value))), <<"U", "A", "P">>)))
       IN IF s = <<>> THEN NoneV ELSE Str(s)

\* normalize_uap, for a value that is None, a number or a str
normalize_uap(value) ==
  IF value.t = "none" THEN NoneV
  ELSE IF value.t \in {"num", "bool"}
  THEN IF 0 < Trunc(value) /\ Trunc(value) < MaxUap THEN Str(str_of_int(Trunc(value))) ELSE NoneV
  ELSE LET s == digits_only(strip(remove_sub(upper(strip(str_of(value))), <<"U", "A", "P">>)))
       IN IF s = <<>> \/ Len(s) > MaxUapLen THEN NoneV ELSE Str(s)

RomanChars == {"I", "V", "X", "L", "C", "D", "M"}

\* a normalization that reads no digits in text
normalize_equipe_text(value) ==
  IF value.t = "none" THEN NoneV
  ELSE IF value.t \in {"num", "bool"}
  THEN IF Trunc(value) \in 1..10 THEN Str(ROMAN_MAP[Trunc(value)]) ELSE NoneV
  ELSE LET s == strip(remove_sub(remove_sub(replace_char(upper(strip(str_of(value))), "É", "E"),
                                            <<"E", "Q", "U", "I", "P", "E">>),
                                 <<"T", "E", "A", "M">>))
           s2 == SelectSeq(s, LAMBDA c : c \in RomanChars)
       IN IF s2 \in VALID_ROMANS THEN Str(s2) ELSE NoneV

\* normalize_equipe, for a value that is None, a number or a str
normalize_equipe(value) ==
  IF value.t = "none" THEN NoneV
  ELSE IF value.t \in {"num", "bool"}
  THEN IF Trunc(value) \in 1..10 THEN Str(ROMAN_MAP[Trunc(value)]) ELSE NoneV
  ELSE LET s == strip(remove_sub(remove_sub(replace_char(upper(strip(str_of(value))), "É", "E"),
                                            <<"E", "Q", "U", "I", "P", "E">>),
                                 <<"T", "E", "A", "M">>))
           s2 == SelectSeq(s, LAMBDA c : c \in RomanChars)
       IN IF isdigit(s)
          THEN IF int_of(s) \in 1..10 THEN Str(ROMAN_MAP[int_of(s)]) ELSE NoneV
          ELSE IF s2 \in VALID_ROMANS THEN Str(s2) ELSE NoneV

\* the header after one loop of post_process_payload: the first key of
\* keys that the header holds is normalized into the key to, by
\* normalize_uap for 'uap' and by normalize_equipe for 'equipe'
normalized_header(header, keys, to) ==
  LET found == {i \in 1..Len(keys) : keys[i] \in DOMAIN header} IN
  IF found = {} THEN header
  ELSE LET key == keys[CHOOSE i \in found : \A j \in found : i <= j]
       IN [k \in ((DOMAIN header) \ {key}) \cup {to} |->
             IF k # to THEN header[k]
             ELSE IF to = "uap" THEN normalize_uap(header[key])
             ELSE normalize_equipe(header[key])]

\* post_process_payload, on the value under 'data' of the wrapper
post_process_payload(inner) ==
  IF inner.t # "dict" THEN inner
  ELSE LET header == Get(inner.rows[1], "header") IN
       IF header.t # "dict" THEN inner
       ELSE Dict(Put(inner.rows[1], "header",
                     Dict(normalized_header(
                            normalized_header(header.rows[1], <<"uap", "UAP">>, "uap"),
                            <<"equipe", "team", "EQUIPE", "TEAM">>, "equipe"))))

----------------------------------------------------------------------------
(* The environment: what the model behind the gateway answers.  A page is  *)
(* the JSON text of a primary extraction, an answer the JSON text of a     *)
(* later pass.                                                             *)

\* a Rebut page read with confidence: a row, a sparse second row for the same
\* reference, a row whose total is implausible
RebutPage ==
  Outcome("json", Dict(("extraction_confidence" :> Num(90) @@ "jap" :> Str(<<"J", "1",
  "2">>) @@ "header" :> Dict(("date" :> Str(<<"1", "/", "2", "/", "2", "0", "2", "4">>) @@
  "jap" :> Str(<<"J", "A", "P", " ", "7">>)))
  @@ "items" :> List(<<("reference" :> Str(<<"R", "1">>) @@ "quantity" :> Str(<<"2", ",",
  "5">>) @@ "total_scrapped" :> NoneV @@ "designation" :> Str(<<"D">>)), ("reference" :>
  Str(<<" ", "R", "1">>) @@ "quantity" :> Str(<<"3">>)), ("reference" :> Str(<<"R", "2">>)
  @@ "quantity" :> Str(<<"1">>) @@ "total_scrapped" :> Str(<<"6", "0">>))>>))))

\* a Rebut page whose reference and jap came back as JSON numbers
RebutOdd ==
  Outcome("json", Dict(("extraction_confidence" :> Num(40) @@ "jap" :> Num(12345) @@
  "items" :> List(<<("reference" :> Num(123) @@ "total_scrapped" :> Str(<<"4">>))>>))))

\* a Rebut page on which the model read nothing and says so
RebutSparse ==
  Outcome("json", Dict(("extraction_confidence" :> Num(0) @@ "jap" :> NoneV @@ "items" :>
  NoneV)))

\* a Kosu page with the line code under 'Nom Ligne', one value in two header
\* fields and a week out of range
KosuPage ==
  Outcome("json", Dict(("extraction_confidence" :> Num(90) @@ "Equipe" :> Str(<<"2">>) @@
  "Nom Ligne" :> Str(<<"1", "5">>) @@ "Code ligne" :> NoneV @@ "Semaine" :> Str(<<"6",
  "0">>) @@ "Numéro OF" :> Str(<<"A", "4">>) @@ "Ref PF" :> Str(<<"A", "4">>) @@
  "Date du document" :> Str(<<"3", " ", "m", "a", "r", "s", " ", "2", "0", "2", "4">>) @@
  "Suivi horaire" :> List(<<("Heure" :> Str(<<"1">>) @@ "Quantité" :> Str(<<"5">>)),
  ("Heure" :> NoneV)>>) @@ "Total / Equipe" :> Dict(("I" :> Str(<<"1", "2">>))))))

\* a Kosu page with the line name in both line fields
KosuSwap ==
  Outcome("json", Dict(("extraction_confidence" :> Num(60) @@ "Equipe" :> Str(<<"A",
  "B">>) @@ "Nom Ligne" :> Str(<<"L", "A">>) @@ "Code ligne" :> Str(<<"L", "A">>) @@
  "Jour" :> NoneV @@ "Semaine" :> Num(12))))

\* a Kosu page with three flagged header fields: the line fields hold
\* each other's kind of value and the team is in the field of the day too
KosuCrossed ==
  Outcome("json", Dict(("extraction_confidence" :> Num(40) @@ "Equipe" :> Str(<<"I", "I",
  "I">>) @@ "Nom Ligne" :> Str(<<"1", "5">>) @@ "Code ligne" :> Str(<<"A", "B">>) @@
  "Jour" :> Str(<<"I", "I", "I">>))))

\* a Kosu page with the team in the field of the day as well
KosuTwin ==
  Outcome("json", Dict(("extraction_confidence" :> Num(80) @@ "Equipe" :> Str(<<"I", "I",
  "I">>) @@ "Nom Ligne" :> Str(<<"L", "A">>) @@ "Code ligne" :> Str(<<"5">>) @@ "Jour" :>
  Str(<<"I", "I", "I">>))))

\* a Kosu page with a number for the line name next to a line code
KosuNumericName ==
  Outcome("json", Dict(("extraction_confidence" :> Num(70) @@ "Equipe" :> Str(<<"I">>) @@
  "Nom Ligne" :> Str(<<"1", "5">>) @@ "Code ligne" :> Str(<<"7">>))))

\* an NPT page with a prefixed uap and a date that is no calendar date
NptPage ==
  Outcome("json", Dict(("extraction_confidence" :> Num(90) @@ "uap" :> Str(<<"U", "A",
  "P", " ", "1", "2">>) @@ "header" :> Dict(("date" :> Str(<<"3", "1", "/", "0", "2", "/",
  "2", "0", "2", "4">>) @@ "UAP" :> Str(<<"U", "A", "P", " ", "7">>) @@ "team" :>
  Str(<<"e", "q", "u", "i", "p", "e", " ", "2">>))))))

\* an NPT page in the schema of the prompt: uap and equipe under 'header'
NptSchema ==
  Outcome("json", Dict(("document_type" :> Str(<<"NPT">>) @@ "header" :> Dict(("uap" :>
  Str(<<"U", "A", "P", " ", "7">>) @@ "date" :> NoneV @@ "equipe" :> Str(<<"2">>))))))

\* an NPT page whose uap holds no digit
NptOdd ==
  Outcome("json", Dict(("extraction_confidence" :> Num(30) @@ "uap" :> Str(<<"a", "b",
  "c">>))))

\* a mapping whose self-reported confidence is out of range
NegativeConfidence ==
  Outcome("json", Dict(("extraction_confidence" :> Num(-100))))

\* a Défauts page: a mark, the same mark read again, a mark without a day
DefautsPage ==
  Outcome("json", Dict(("recorded_defects" :> List(<<("code" :> Str(<<"d", "1">>) @@ "day"
  :> Str(<<"l", "u", "n">>) @@ "station" :> Str(<<"e", "1">>) @@ "raw_mark" :> Str(<<"X",
  "X">>)), ("code" :> Str(<<"D", "1", " ">>) @@ "day" :> Str(<<"L", "U", "N">>) @@
  "station" :> Str(<<"E", "1">>) @@ "raw_mark" :> Str(<<"X", "X">>)), ("code" :>
  Str(<<"D", "2">>) @@ "day" :> NoneV @@ "station" :> Str(<<"E", "1">>) @@ "raw_mark" :>
  Str(<<"2", "x">>))>>))))

\* a Défauts page whose list of marks came back as JSON null
DefautsNull ==
  Outcome("json", Dict(("recorded_defects" :> NoneV)))

\* an answer to verify_rebut_totals
RebutTotalsAnswer ==
  Outcome("json", Dict(("handwritten_totals" :> List(<<("reference" :> Str(<<"R", "2">>)
  @@ "has_total" :> Bool(FALSE) @@ "confidence" :> Str(<<"h", "i", "g", "h">>)),
  ("reference" :> Str(<<"R", "1">>) @@ "has_total" :> Bool(FALSE) @@ "confidence" :>
  Str(<<"l", "o", "w">>))>>))))

\* an answer to recover_rebut_missing_rows
RebutRowsAnswer ==
  Outcome("json", Dict(("additional_items" :> List(<<("reference" :> Str(<<"R", "3">>) @@
  "quantity" :> Str(<<"4">>) @@ "total_scrapped" :> Str(<<" ">>)), ("reference" :>
  Str(<<"R", "1">>))>>))))

\* an answer to verify_kosu_header
KosuHeaderAnswer ==
  Outcome("json", Dict(("header_corrections" :> List(<<("field" :> Str(<<"Code ligne">>)
  @@ "correct_value" :> Str(<<"7">>)), ("field" :> Str(<<"final_confidence">>) @@
  "correct_value" :> NoneV)>>))))

\* an answer to verify_kosu_header whose list is JSON null
KosuHeaderNull ==
  Outcome("json", Dict(("header_corrections" :> NoneV)))

\* an answer to recover_kosu_missing_header
KosuRecoveredAnswer ==
  Outcome("json", Dict(("recovered_fields" :> List(<<("field" :> Str(<<"Nom Ligne">>) @@
  "value" :> Str(<<"L", "A">>)), ("field" :> Str(<<"Equipe">>) @@ "value" :> Str(<<"I",
  "I", "I">>))>>))))

\* an answer to verify_kosu_table_data
KosuTableAnswer ==
  Outcome("json", Dict(("table_corrections" :> List(<<("row_index" :> Num(0) @@ "field" :>
  Str(<<"Quantité">>) @@ "correct_value" :> Str(<<"6">>))>>))))

\* an answer to a prompt of targeted_field_reextraction
FieldAnswer ==
  Outcome("json", Dict(("Equipe" :> Str(<<"I", "I", "I">>) @@ "Nom Ligne" :> Str(<<"L",
  "B">>) @@ "Code ligne" :> Str(<<"8">>))))

\* an answer to a re-extraction prompt with values of the wrong shape: a
\* digit team, a numeric line name, a line code with a letter
FieldWrong ==
  Outcome("json", Dict(("Equipe" :> Str(<<"7">>) @@ "Nom Ligne" :> Str(<<"4", "2">>) @@
  "Code ligne" :> Str(<<"X", "9">>))))

\* an answer to a re-extraction prompt whose line name is the number 0
FieldZero ==
  Outcome("json", Dict(("Nom Ligne" :> Num(0) @@ "Code ligne" :> Str(<<"9">>))))

\* an answer to verify_defauts_marks
DefautsVerifiedAnswer ==
  Outcome("json", Dict(("verified" :> List(<<("index" :> Num(2) @@ "keep" :>
  Bool(FALSE))>>))))

\* an answer to recover_defauts_missing_marks
DefautsAdditionalAnswer ==
  Outcome("json", Dict(("additional" :> List(<<("code" :> Str(<<"D", "3">>) @@ "day" :>
  Str(<<"m", "a", "r">>) @@ "station" :> Str(<<"E", "2">>) @@ "raw_mark" :>
  Str(<<"X">>))>>))))


JsonNull == Outcome("json", NoneV)

\* text that decodes to a JSON list
JsonList == Outcome("json", List(<<>>))

\* a page on which the model reports a confidence above the 0-100 it was
\* asked for
OverConfident ==
  Outcome("json", Dict(("extraction_confidence" :> Num(150))))

\* what a primary extraction call for a document type can do
PrimaryOutcomes(dt) ==
  GatewayFailures \cup {JsonNull, JsonList, NegativeConfidence, OverConfident} \cup
  (CASE dt = "Rebut" -> {RebutPage, RebutOdd, RebutSparse}
     [] dt = "Kosu" -> {KosuPage, KosuSwap, KosuNumericName, KosuTwin, KosuCrossed}
     [] dt = "NPT" -> {NptPage, NptOdd, NptSchema}
     [] OTHER -> {DefautsPage, DefautsNull})

\* what the model call of a later pass can do
PassOutcomes(pass) ==
  GatewayFailures \cup {JsonList} \cup
  (CASE pass = "verify_rebut_totals" -> {RebutTotalsAnswer}
     [] pass = "recover_rebut_missing_rows" -> {RebutRowsAnswer}
     [] pass = "verify_kosu_header" -> {KosuHeaderAnswer, KosuHeaderNull}
     [] pass = "recover_kosu_missing_header" -> {KosuRecoveredAnswer}
     [] pass = "verify_kosu_table_data" -> {KosuTableAnswer}
     [] pass = "targeted_field_reextraction" -> {FieldAnswer, FieldWrong, FieldZero}
     [] pass = "verify_defauts_marks" -> {DefautsVerifiedAnswer}
     [] OTHER -> {DefautsAdditionalAnswer})

DocTypes == {"Rebut", "Kosu", "NPT", "Défauts", "Defauts", "Other", ""}

\* image_path: names a readable image, no file, a file PIL cannot read, or
\* is empty
Images == {"ok", "notfound", "unreadable", "nopath"}

----------------------------------------------------------------------------
(* The orchestrator: extract_data_from_image *)

\* the keys of PROMPT_MAP
PROMPT_MAP == {"Rebut", "Kosu", "NPT", "Défauts", "Defauts"}

DefautsTypes == {"Défauts", "Defauts"}

DEFAUTS_DOC_TYPE == "Défauts"

\* the Rebut passes with deduplication moved behind the last verification
rebut_passes_dedup_late ==
  <<"verify_rebut_totals_1", "recover_rebut_missing_rows", "verify_rebut_totals_2",
    "verify_rebut_totals_3", "deduplicate_rebut_items", "normalize_rebut_numeric_fields">>

\* the Rebut passes of the document-specific try block, in the order of
\* its statements
rebut_passes ==
  <<"verify_rebut_totals_1", "recover_rebut_missing_rows", "verify_rebut_totals_2",
    "deduplicate_rebut_items", "verify_rebut_totals_3", "normalize_rebut_numeric_fields">>

kosu_passes ==
  <<"verify_kosu_header", "recover_kosu_missing_header", "verify_kosu_table_data",
    "post_process_kosu">>

\* the passes of the document-specific try block
type_passes(dt) ==
  CASE dt = "Rebut" -> rebut_passes
    [] dt = "Kosu" -> kosu_passes
    [] OTHER -> <<>>

\* the passes of the validation try block
validation_passes ==
  <<"validate_extraction_against_template", "cross_validate_fields",
    "targeted_field_reextraction", "final_sanity_check">>

\* the positions of extract_data_from_image after the primary extraction
pipeline(dt) == type_passes(dt) \o <<"normalize_all_dates">> \o validation_passes \o <<"return">>

\* the positions of extract_defauts_multi after its primary call
defauts_pipeline ==
  <<"verify_defauts_marks_1", "recover_defauts_missing_marks", "verify_defauts_marks_2",
    "defauts_finish">>

\* the position that follows p
after(seq, p) == seq[(CHOOSE i \in 1..Len(seq) : seq[i] = p) + 1]

\* the entry of the call log: which pass called, and what came back (no
\* text at all, text that is not JSON, or JSON)
Call(pass, o) ==
  [pass |-> pass,
   got |-> IF o.kind \in {"raise", "none", "notext", "empty"} THEN "noresponse"
           ELSE IF o.kind = "garbage" THEN "garbage" ELSE "json"]

\* the payloads extract_data_from_image returns
error_payload(message) == "error" :> Str(message)

typed_error_payload(message, dt) ==
  "error" :> Str(message) @@ "document_type" :> Str(<<dt>>)

success_payload(d, remark) == "data" :> Dict(d) @@ "remark" :> Str(remark)

\* extract_data_from_image up to the primary extraction: where it goes on
\* and what it returns when it returns there
dispatch(dt, img) ==
  IF img = "nopath" \/ dt = ""
  THEN [pc |-> "returned", result |-> error_payload(<<"Missing image_path or doc_type">>)]
  ELSE IF dt \in DefautsTypes THEN [pc |-> "extract_defauts_multi", result |-> EmptyDict]
  ELSE IF img = "notfound"
  THEN [pc |-> "returned", result |-> error_payload(<<"Image not found">>)]
  ELSE IF img = "unreadable"
  THEN [pc |-> "returned", result |-> error_payload(<<"Image loading failed: ", "e">>)]
  ELSE IF dt \notin PROMPT_MAP
  THEN [pc |-> "returned", result |-> error_payload(<<"Unsupported document type: ", dt>>)]
  ELSE [pc |-> "retry", result |-> EmptyDict]

\* BatchProcessingSession.__init__ for a batch of n pages
BatchProcessingSession(n) ==
  [total_pages |-> n, completed_pages |-> 0, failed_pages |-> 0,
   documents |-> <<>>, errors |-> <<>>, status |-> "initializing"]

\* no batch is running while one image is extracted
NewSession == BatchProcessingSession(0)

NoWorkers == [p \in {} |-> [pc |-> "queued"]]

Init ==
  /\ doc_type \in DocTypes
  /\ image \in Images
  /\ pc = "start"
  /\ data = EmptyDict
  /\ attempt = 0
  /\ best_result = EmptyDict
  /\ best_confidence = <<0, 1>>
  /\ attempts = <<>>
  /\ calls = <<>>
  /\ passes = <<>>
  /\ faults = <<>>
  /\ result = EmptyDict
  /\ response = EmptyDict
  /\ session = NewSession
  /\ workers = NoWorkers
  /\ database = {}

Open ==
  /\ pc = "start"
  /\ pc' = dispatch(doc_type, image).pc
  /\ result' = dispatch(doc_type, image).result
  /\ UNCHANGED <<doc_type, image, data, attempt, best_result, best_confidence, attempts,
                 calls, passes, faults, response,
                 session, workers, database>>

\* what the history keeps of a primary attempt: whether the gateway gave
\* text that decodes to a mapping, that mapping, whether the loop scored
\* the attempt, and the score
attempt_record(o) ==
  LET parsed == safe_json_parse(safe_model_call(o))
      scored == ~TextFalsy(safe_model_call(o)) /\ parsed.t = "dict"
  IN [mapping |-> o.kind = "json" /\ o.val.t = "dict",
      parsed |-> IF o.kind = "json" /\ o.val.t = "dict" THEN o.val.rows[1] ELSE EmptyDict,
      scored |-> scored,
      combined |-> IF scored THEN combined_confidence(parsed.rows[1]) ELSE <<0, 1>>]

\* the loop with range(max_retries + 2): one more iteration
AttemptOnceMore ==
  /\ pc = "retry"
  /\ \E o \in PrimaryOutcomes(doc_type) :
       LET r == retry_iteration(o, best_result, best_confidence) IN
       /\ best_result' = r[1]
       /\ best_confidence' = r[2]
       /\ pc' = IF r[3] \/ attempt = max_retries + 1 THEN "check" ELSE "retry"
       /\ attempts' = Append(attempts, attempt_record(o))
       /\ calls' = Append(calls, Call("primary", o))
  /\ attempt' = attempt + 1
  /\ passes' = IF attempt = 0 THEN Append(passes, "primary") ELSE passes
  /\ UNCHANGED <<doc_type, image, data, faults, result, response,
                 session, workers, database>>

\* one iteration of the loop of extract_with_confidence_retry
Attempt ==
  /\ pc = "retry"
  /\ \E o \in PrimaryOutcomes(doc_type) :
       LET r == retry_iteration(o, best_result, best_confidence) IN
       /\ best_result' = r[1]
       /\ best_confidence' = r[2]
       /\ pc' = IF r[3] \/ attempt = max_retries THEN "check" ELSE "retry"
       /\ attempts' = Append(attempts, attempt_record(o))
       /\ calls' = Append(calls, Call("primary", o))
  /\ attempt' = attempt + 1
  /\ passes' = IF attempt = 0 THEN Append(passes, "primary") ELSE passes
  /\ UNCHANGED <<doc_type, image, data, faults, result, response,
                 session, workers, database>>

\* extract_with_confidence_retry returns best_result; the orchestrator
\* gives up on an empty one
PrimaryCheck ==
  /\ pc = "check"
  /\ IF DOMAIN best_result = {}
     THEN /\ result' = typed_error_payload(<<"Primary extraction failed">>, doc_type)
          /\ pc' = "returned"
          /\ data' = data
     ELSE /\ data' = SetDefault(best_result, "document_type", Str(<<doc_type>>))
          /\ pc' = pipeline(doc_type)[1]
          /\ result' = result
  /\ attempt' = 0
  /\ best_result' = EmptyDict
  /\ best_confidence' = <<0, 1>>
  /\ attempts' = <<>>
  /\ UNCHANGED <<doc_type, image, calls, passes, faults, response,
                 session, workers, database>>

\* the end of a pass of extract_data_from_image: the record it leaves, the
\* calls it made, and whether it raised into the try block around it
Advance(d, cs, raised) ==
  /\ data' = d
  /\ calls' = cs
  /\ passes' = Append(passes, pc)
  /\ faults' = IF raised THEN Append(faults, pc) ELSE faults
  /\ pc' = IF raised THEN "normalize_all_dates" ELSE after(pipeline(doc_type), pc)
  /\ UNCHANGED <<doc_type, image, attempt, best_result, best_confidence, attempts, result,
                 response,
                 session, workers, database>>

\* the end of a pass that says whether it raised
AdvanceWith(r, cs) == Advance(r.data, cs, r.raised)

VerifyRebutTotals ==
  /\ pc \in {"verify_rebut_totals_1", "verify_rebut_totals_2", "verify_rebut_totals_3"}
  /\ IF verify_rebut_totals_calls(data)
     THEN \E o \in PassOutcomes("verify_rebut_totals") :
            Advance(verify_rebut_totals(data, o), Append(calls, Call(pc, o)), FALSE)
     ELSE Advance(data, calls, FALSE)

RecoverRebutMissingRows ==
  /\ pc = "recover_rebut_missing_rows"
  /\ \E o \in PassOutcomes("recover_rebut_missing_rows") :
       Advance(recover_rebut_missing_rows(data, o), Append(calls, Call(pc, o)), FALSE)

DeduplicateRebutItems ==
  /\ pc = "deduplicate_rebut_items"
  /\ AdvanceWith(deduplicate_rebut_items(data), calls)

NormalizeRebutNumericFields ==
  /\ pc = "normalize_rebut_numeric_fields"
  /\ Advance(normalize_rebut_numeric_fields(data), calls, FALSE)

\* verify_kosu_header up to its model call
VerifyKosuHeaderPreFix ==
  /\ pc = "verify_kosu_header"
  /\ data' = kosu_header_prefix(data)
  /\ passes' = Append(passes, pc)
  /\ pc' = IF verify_kosu_header_calls(data, kosu_header_prefix(data))
           THEN "verify_kosu_header_call"
           ELSE after(pipeline(doc_type), pc)
  /\ UNCHANGED <<doc_type, image, attempt, best_result, best_confidence, attempts, calls,
                 faults, result, response,
                 session, workers, database>>

\* verify_kosu_header from its model call on
VerifyKosuHeaderCall ==
  /\ pc = "verify_kosu_header_call"
  /\ \E o \in PassOutcomes("verify_kosu_header") :
       /\ data' = verify_kosu_header(data, o).data
       /\ calls' = Append(calls, Call("verify_kosu_header", o))
       /\ faults' = IF verify_kosu_header(data, o).raised
                    THEN Append(faults, "verify_kosu_header") ELSE faults
       /\ pc' = IF verify_kosu_header(data, o).raised THEN "normalize_all_dates"
                ELSE after(pipeline(doc_type), "verify_kosu_header")
  /\ UNCHANGED <<doc_type, image, attempt, best_result, best_confidence, attempts, passes,
                 result, response,
                 session, workers, database>>

RecoverKosuMissingHeader ==
  /\ pc = "recover_kosu_missing_header"
  /\ IF recover_kosu_missing_header_calls(data)
     THEN \E o \in PassOutcomes("recover_kosu_missing_header") :
            AdvanceWith(recover_kosu_missing_header(data, o), Append(calls, Call(pc, o)))
     ELSE Advance(data, calls, FALSE)

VerifyKosuTableData ==
  /\ pc = "verify_kosu_table_data"
  /\ IF verify_kosu_table_data_calls(data)
     THEN \E o \in PassOutcomes("verify_kosu_table_data") :
            AdvanceWith(verify_kosu_table_data(data, o), Append(calls, Call(pc, o)))
     ELSE Advance(data, calls, FALSE)

PostProcessKosu ==
  /\ pc = "post_process_kosu"
  /\ Advance(post_process_kosu(data), calls, FALSE)

NormalizeAllDates ==
  /\ pc = "normalize_all_dates"
  /\ Advance(normalize_all_dates(data, doc_type), calls, FALSE)

ValidateExtractionAgainstTemplate ==
  /\ pc = "validate_extraction_against_template"
  /\ Advance(validate_extraction_against_template(data, doc_type), calls, FALSE)

CrossValidateFields ==
  /\ pc = "cross_validate_fields"
  /\ Advance(cross_validate_fields(data, doc_type), calls, FALSE)

\* The flagged fields are collected and re-extracted, one model call for
\* each; nothing is flagged: the pass does not run.  list(set(...)) gives
\* the fields in no fixed order, and the re-extraction of one field neither
\* reads nor writes another, so the order of header_fields stands for all.
TargetedFieldReextraction ==
  /\ pc = "targeted_field_reextraction"
  /\ IF problem_fields(data) = <<>>
     THEN /\ pc' = after(pipeline(doc_type), pc)
          /\ UNCHANGED <<data, calls, passes, faults>>
          /\ UNCHANGED <<doc_type, image, attempt, best_result, best_confidence, attempts,
                         result, response,
                 session, workers, database>>
     ELSE \E os \in [1..Len(problem_fields(data)) ->
                       PassOutcomes("targeted_field_reextraction")] :
            Advance(targeted_field_reextraction(data, problem_fields(data), os),
                    calls \o [i \in 1..Len(problem_fields(data)) |-> Call(pc, os[i])],
                    FALSE)

FinalSanityCheck ==
  /\ pc = "final_sanity_check"
  /\ Advance(final_sanity_check(data, doc_type), calls, FALSE)

Return ==
  /\ pc = "return"
  /\ result' = success_payload(data, <<doc_type, " extraction complete">>)
  /\ pc' = "returned"
  /\ UNCHANGED <<doc_type, image, data, attempt, best_result, best_confidence, attempts,
                 calls, passes, faults, response,
                 session, workers, database>>

----------------------------------------------------------------------------
(* extract_defauts_multi, called for the Défauts types *)

\* The primary call of extract_defauts_multi on its outcome o: "empty"
\* when the try block fails and {} is returned, "raised" when parsed is no
\* mapping and parsed.get raises, "parsed" otherwise
defauts_primary(o) ==
  IF o.kind \in {"raise", "none", "garbage"} THEN [how |-> "empty", parsed |-> EmptyDict]
  ELSE IF o.kind = "json" /\ o.val.t # "dict" THEN [how |-> "raised", parsed |-> EmptyDict]
  ELSE [how |-> "parsed", parsed |-> IF o.kind = "json" THEN o.val.rows[1] ELSE EmptyDict]

\* the except clause at the end of extract_data_from_image
critical_error_payload(dt) == typed_error_payload(<<"Critical extraction error: ", "e">>, dt)

ExtractDefautsPrimary ==
  /\ pc = "extract_defauts_multi"
  /\ IF image # "ok"
     THEN /\ result' = IF image = "notfound" THEN EmptyDict ELSE critical_error_payload(doc_type)
          /\ pc' = "returned"
          /\ UNCHANGED <<data, calls, passes>>
     ELSE \E o \in PrimaryOutcomes(doc_type) :
            /\ calls' = Append(calls, Call("primary", o))
            /\ passes' = Append(passes, "primary")
            /\ data' = IF defauts_primary(o).how = "parsed"
                       THEN defauts_ensure_keys(defauts_primary(o).parsed) ELSE data
            /\ pc' = IF defauts_primary(o).how = "parsed" THEN defauts_pipeline[1]
                     ELSE "returned"
            /\ result' = IF defauts_primary(o).how = "raised"
                         THEN critical_error_payload(doc_type) ELSE EmptyDict
  /\ UNCHANGED <<doc_type, image, attempt, best_result, best_confidence, attempts, faults,
                 response,
                 session, workers, database>>

\* the end of a pass of extract_defauts_multi
DefautsAdvance(d, cs) ==
  /\ data' = d
  /\ calls' = cs
  /\ passes' = Append(passes, pc)
  /\ pc' = after(defauts_pipeline, pc)
  /\ UNCHANGED <<doc_type, image, attempt, best_result, best_confidence, attempts, faults,
                 result, response,
                 session, workers, database>>

VerifyDefautsMarks ==
  /\ pc \in {"verify_defauts_marks_1", "verify_defauts_marks_2"}
  /\ IF verify_defauts_marks_calls(data)
     THEN \E o \in PassOutcomes("verify_defauts_marks") :
            DefautsAdvance(verify_defauts_marks(data, o), Append(calls, Call(pc, o)))
     ELSE DefautsAdvance(data, calls)

RecoverDefautsMissingMarks ==
  /\ pc = "recover_defauts_missing_marks"
  /\ \E o \in PassOutcomes("recover_defauts_missing_marks") :
       DefautsAdvance(recover_defauts_missing_marks(data, o), Append(calls, Call(pc, o)))

\* normalize, refine and total the marks, and return; an exception there
\* reaches the except clause of extract_data_from_image
DefautsFinish ==
  /\ pc = "defauts_finish"
  /\ passes' = Append(passes, pc)
  /\ data' = defauts_finish(data).data
  /\ faults' = IF defauts_finish(data).raised THEN Append(faults, pc) ELSE faults
  /\ result' = IF defauts_finish(data).raised THEN critical_error_payload(doc_type)
               ELSE success_payload(defauts_finish(data).data,
                                    <<"Défauts extraction complete: ">> \o
                                    digits_of(defauts_finish(data).marks) \o
                                    <<" marks (refined)">>)
  /\ pc' = "returned"
  /\ UNCHANGED <<doc_type, image, attempt, best_result, best_confidence, attempts, calls,
                 response,
                 session, workers, database>>

----------------------------------------------------------------------------
(* The HTTP response: ExtractView._handle_image_extraction *)

\* the response for the wrapper that extract_data_from_image returned;
\* saved: save_uploaded_image gave a URL
response_payload(wrapper, saved) ==
  IF DOMAIN wrapper = {}
  THEN "status" :> Str(<<"error">>) @@ "message" :> Str(<<"Empty extraction result">>)
  ELSE LET resp_payload == "status" :> Str(<<"success">>) @@
                           "data" :> post_process_payload(Get(wrapper, "data"))
           with_remark == IF Truthy(Get(wrapper, "remark"))
                          THEN Put(resp_payload, "remark", wrapper["remark"])
                          ELSE resp_payload
       IN IF saved THEN Put(with_remark, "imageUrl", Str(<<"image_url">>)) ELSE with_remark

HandleImageExtraction ==
  /\ pc = "returned"
  /\ \E saved \in BOOLEAN : response' = response_payload(result, saved)
  /\ pc' = "responded"
  /\ UNCHANGED <<doc_type, image, data, attempt, best_result, best_confidence, attempts,
                 calls, passes, faults, result,
                 session, workers, database>>

\* process_single_page of the batch path: the document it creates for the
\* wrapper that extract_data_from_image returned
document_data(wrapper, dt) ==
  "data" :> Get(wrapper, "data") @@
  "remark" :> (IF Truthy(Get(wrapper, "remark")) THEN wrapper["remark"]
               ELSE Str(<<dt, " extraction complete - Page ", "page_num">>))

\* the batch path: the page fails on an empty wrapper, else its document is
\* stored
ProcessSinglePage ==
  /\ pc = "returned"
  /\ response' = IF DOMAIN result = {}
                 THEN "success" :> Bool(FALSE) @@
                      "error" :> Str(<<"Empty extraction result from AI">>)
                 ELSE document_data(result, doc_type)
  /\ pc' = IF DOMAIN result = {} THEN "page_failed" ELSE "stored"
  /\ UNCHANGED <<doc_type, image, data, attempt, best_result, best_confidence, attempts,
                 calls, passes, faults, result,
                 session, workers, database>>

Next ==
  \/ Open
  \/ Attempt
  \/ PrimaryCheck
  \/ VerifyRebutTotals
  \/ RecoverRebutMissingRows
  \/ DeduplicateRebutItems
  \/ NormalizeRebutNumericFields
  \/ VerifyKosuHeaderPreFix
  \/ VerifyKosuHeaderCall
  \/ RecoverKosuMissingHeader
  \/ VerifyKosuTableData
  \/ PostProcessKosu
  \/ NormalizeAllDates
  \/ ValidateExtractionAgainstTemplate
  \/ CrossValidateFields
  \/ TargetedFieldReextraction
  \/ FinalSanityCheck
  \/ Return
  \/ ExtractDefautsPrimary
  \/ VerifyDefautsMarks
  \/ RecoverDefautsMissingMarks
  \/ DefautsFinish
  \/ HandleImageExtraction
  \/ ProcessSinglePage

Spec == Init /\ [][Next]_vars

-----------------------------------------------------------------------------
(* The functions of the pipeline on their own: a function is applied to an *)
(* argument drawn from a bounded set.  best_result holds the argument,     *)
(* data the value returned, pc the function that was applied.              *)

\* values a model may give for 'Nom Ligne'
NomLigneValues ==
  {NoneV, Str(<<"1", "5">>), Str(<<" ", "1", "5", " ">>), Str(<<"L", "A">>), Num(15), Num(0)}

\* values a model may give for 'Code ligne'
CodeLigneValues ==
  {NoneV, Str(<<"7">>), Str(<<"A", "4">>), Str(<<"L", "A">>), Str(<<"1", "5">>), Num(7)}

\* values a model may give for the other header fields
EquipeValues == {NoneV, Str(<<"I", "I">>), Str(<<"a", "4">>)}

JourValues == {NoneV, Str(<<"A", "4">>), Str(<<"I", "I">>)}

SemaineValues == {Str(<<"1", "2">>), Str(<<" ", "a", "4">>), Str(<<"i", "i">>), Str(<<"9", "9">>)}

NumeroOFValues == {NoneV, Str(<<"A", "4">>)}

RefPFValues == {NoneV, Str(<<"A", "4", " ">>), Str(<<"1", "2">>), Str(<<"9", "9">>)}

\* the Kosu headers cross_validate_fields is applied to
KosuHeaders ==
  {("Nom Ligne" :> n @@ "Code ligne" :> c @@ "Equipe" :> e @@ "Jour" :> j @@
    "Semaine" :> w @@ "Numéro OF" :> o @@ "Ref PF" :> f) :
     n \in NomLigneValues, c \in CodeLigneValues, e \in EquipeValues, j \in JourValues,
     w \in SemaineValues, o \in NumeroOFValues, f \in RefPFValues}

\* the headers targeted_field_reextraction is applied to
FlaggedHeaders ==
  {("Nom Ligne" :> n @@ "Code ligne" :> c @@ "Equipe" :> e @@ "Jour" :> j) :
     n \in {NoneV, Str(<<"L", "B">>)}, c \in {NoneV, Str(<<"8">>), Num(7)},
     e \in {NoneV, Str(<<"I", "I">>)}, j \in {NoneV, Str(<<"A", "4">>)}}

\* the lists of flagged fields it is given; 'Jour' has no prompt
FlaggedLists ==
  {<<"Nom Ligne">>, <<"Jour">>, <<"Equipe", "Code ligne">>, <<"Jour", "Nom Ligne">>}

\* an answer to a re-extraction prompt that holds no value
FieldBlank ==
  Outcome("json", Dict(("Equipe" :> NoneV @@ "Nom Ligne" :> Str(NullWord) @@
  "Code ligne" :> Str(<<>>))))

\* an answer that holds a value for 'Jour', which has no prompt
FieldJour ==
  Outcome("json", Dict(("Jour" :> Str(<<"B", "2">>) @@ "Nom Ligne" :> Str(<<"L", "C">>))))

\* what the model call for one field can do
FieldOutcomes ==
  {Outcome("raise", NoneV), Outcome("empty", NoneV), Outcome("garbage", NoneV), JsonList,
   FieldAnswer, FieldZero, FieldBlank, FieldJour}

\* the rows of a Rebut page: the reference is missing, blank, text with or
\* without blanks around it, or a JSON number
ItemRows ==
  {("reference" :> r @@ "quantity" :> q) :
     r \in {NoneV, Str(<<>>), Str(<<" ">>), Str(<<"R", "1">>), Str(<<" ", "R", "1">>),
            Str(<<"R", "2">>), Num(123)},
     q \in {NoneV, Str(<<"3">>)}}

MaxItems == 3

\* the Rebut records deduplicate_rebut_items is applied to
ItemLists ==
  {("items" :> List(rows)) : rows \in UNION {[1..n -> ItemRows] : n \in 0..MaxItems}}

\* a row with a reference, and a later row that repeats that reference
FirstRows ==
  {("reference" :> Str(<<"R", "1">>) @@ "quantity" :> q @@ "total_scrapped" :> t) :
     q \in {NoneV, Num(5), Num(3), Str(<<"3">>), Str(<<"2", ",", "5">>)},
     t \in {NoneV, Str(<<>>), Str(NullWord), Str(<<"7">>), Num(0)}}

LaterRows ==
  {("reference" :> Str(<<" ", "R", "1">>) @@ "quantity" :> q @@ "designation" :> g @@
    "total_scrapped" :> t) :
     q \in {NoneV, Num(3), Str(<<"3">>), Str(<<"3", ".", "0">>), Str(<<"5", "0">>),
            Str(<<"6", "0">>), Str(<<"-", "1">>), Str(<<"2", ",", "5">>), Str(<<"a", "b">>)},
     g \in {NoneV, Str(<<"D">>)},
     t \in {NoneV, Str(<<"4">>)}}

\* the Rebut records with a repeated reference
MergeLists == {("items" :> List(<<a, b>>)) : a \in FirstRows, b \in LaterRows}

\* rows with a quantity and a total as the model writes them
QuantityValues ==
  {NoneV, Num(0), Num(-1), Num(10), Num(11), Float(<<21, 2>>), Str(<<"1", "0">>),
   Str(<<" ", "1", " ", "0">>), Str(<<"2", ",", "5">>), Str(<<"a", "b">>)}

TotalValues ==
  {NoneV, Num(0), Num(26), Num(50), Num(51), Num(55), Num(56), Float(<<105, 2>>),
   Str(<<"5", "1">>), Str(<<"6", " ", "0">>), Str(<<"5", ",", "5">>), Str(<<"x">>)}

QuantityRows ==
  {("reference" :> Str(<<"R", "1">>) @@ "quantity" :> q @@ "total_scrapped" :> t) :
     q \in QuantityValues, t \in TotalValues}

\* the Rebut records of one row, and of a row after a row with an
\* implausible total
QuantityLists ==
  {("items" :> List(<<a>>)) : a \in QuantityRows} \cup
  {("items" :> List(<<("reference" :> Str(<<"R", "0">>) @@ "quantity" :> Num(10) @@
                       "total_scrapped" :> Num(51)), a>>)) : a \in QuantityRows}

\* marks as the model writes them
MarkRows ==
  {("code" :> c @@ "day" :> dy @@ "station" :> st @@ "raw_mark" :> rm) :
     c \in {NoneV, Str(<<" ", "a", "-", "1">>), Str(<<"a", " ", "b">>), Num(12),
            Str(<<"A", "B", "C", "D", "E", "F", "G", "H", "I", "J", "K">>)},
     dy \in {NoneV, Str(<<"l", "u", "n">>), Str(<<"M", "A", "R", " ">>), Str(<<"D", "i", "m">>)},
     st \in {NoneV, Str(<<"e", "1">>), Str(<<"E", "4">>)},
     rm \in {NoneV, Str(<<>>), Str(<<"X">>), Str(<<"6", "0">>), Str(<<"2", "x">>), Num(3),
             Str(<<"?">>)}}

\* two marks of one cell
CellRows ==
  {("code" :> c @@ "day" :> dy @@ "station" :> Str(<<"e", "1">>) @@ "raw_mark" :> rm) :
     c \in {Str(<<"a", "-", "1">>), Str(<<"A", "-", "1", " ">>)},
     dy \in {Str(<<"l", "u", "n">>), Str(<<"L", "u", "n">>)},
     rm \in {Str(<<"X">>), Str(<<"5", "1">>), Str(<<"x">>)}}

\* the Défauts records of one mark, and of two marks of one cell
MarkLists ==
  {("recorded_defects" :> List(<<a>>)) : a \in MarkRows} \cup
  {("recorded_defects" :> List(<<a, b>>)) : a \in CellRows, b \in CellRows}

\* refined marks with their counts
CountRows ==
  {("code" :> NoneV @@ "day" :> dy @@ "station" :> st @@ "raw_mark" :> Str(<<"X">>) @@
    "count" :> c) :
     dy \in {NoneV, Str(<<"L", "u", "n">>), Str(<<"M", "a", "r">>)},
     st \in {NoneV, Str(<<"E", "1">>), Str(<<"E", "2">>)},
     c \in {NoneV, Num(1), Num(2)}}

CellCounts == {r \in CountRows : Get(r, "day") # NoneV /\ Get(r, "station") = Str(<<"E", "1">>)}

\* the refined marks of at most two cells, and three marks of one station
CountLists ==
  {("recorded_defects" :> List(<<a>>)) : a \in CountRows} \cup
  {("recorded_defects" :> List(<<a, b>>)) : a \in CountRows, b \in CountRows} \cup
  {("recorded_defects" :> List(<<a, b, c>>)) : a \in CellCounts, b \in CellCounts, c \in CellCounts}

MaxMarkLen == 3

MarkChars == {"2", "3", "X", "x", "U+2714", " ", "?"}

\* the raw marks: text of at most MaxMarkLen characters, numbers, a
\* boolean and None
RawMarks ==
  {("raw_mark" :> v) :
     v \in {Str(s) : s \in UNION {[1..n -> MarkChars] : n \in 0..MaxMarkLen}} \cup
           {NoneV, Num(3), Num(0), Float(<<5, 2>>), Float(<<-5, 2>>), Bool(TRUE)}}

MaxDay == 32

MaxMonth == 13

\* the years of the dates: the ends of the accepted range, the years next
\* to them, leap years and years that are not
DateYears == {1899, 1900, 2000, 2023, 2024, 2100, 2101}

\* day, month and year written with the separator sep, zero-padded; the
\* year first when ymd
rendering(day, month, year, sep, ymd) ==
  IF ymd
  THEN zero_pad(digits_of(year), 4) \o sep \o zero_pad(digits_of(month), 2) \o sep \o
       zero_pad(digits_of(day), 2)
  ELSE zero_pad(digits_of(day), 2) \o sep \o zero_pad(digits_of(month), 2) \o sep \o
       zero_pad(digits_of(year), 4)

\* the dates the model writes: real dates and dates no calendar has, in
\* the forms DD/MM/YYYY, DD-MM-YYYY, DD.MM.YYYY, DDMMYYYY and YYYY-MM-DD
DateValues ==
  {("date" :> Str(rendering(day, month, year, sep, FALSE))) :
     day \in 0..MaxDay, month \in 0..MaxMonth, year \in DateYears,
     sep \in {<<"/">>, <<"-">>, <<".">>, <<>>}} \cup
  {("date" :> Str(rendering(day, month, year, <<"-">>, TRUE))) :
     day \in 0..MaxDay, month \in 0..MaxMonth, year \in DateYears}

MaxEquipe == 11

MaxEquipeLen == 3

EquipeChars == {"I", "V", "X", "A", "1"}

\* the teams the model writes: numbers, the digits of numbers, text of at
\* most MaxEquipeLen characters and labelled teams
EquipeInputs ==
  {("value" :> v) :
     v \in {Num(n) : n \in -1..MaxEquipe} \cup
           {Str(str_of_int(n)) : n \in 0..MaxEquipe} \cup
           {Str(s) : s \in UNION {[1..n -> EquipeChars] : n \in 0..MaxEquipeLen}} \cup
           {NoneV, Bool(TRUE), Float(<<7, 2>>), Str(<<"0", "7">>), Str(<<" ", "v", "i", "i", " ">>),
            Str(<<"V", "I", "I", "I">>), Str(<<"I", "I", ".">>), Str(<<"L", "I", "V">>),
            Str(<<"é", "q", "u", "i", "p", "e", " ", "I", "I", "I">>),
            Str(<<"E", "q", "u", "i", "p", "e", " ", "2">>),
            Str(<<"T", "e", "a", "m", " ", "I", "V">>)}}

MaxUapTextLen == 3

UapChars == {"U", "A", "P", "u", "0", "4", "2", " "}

\* the UAP values the model writes: numbers about the two ends of the
\* range, fractions, text of at most MaxUapTextLen characters and
\* labelled numbers
UapInputs ==
  {("value" :> v) :
     v \in {Num(n) : n \in {-1, 0, 1, 7, 42, 999, 1000, 1001}} \cup
           {Float(<<1, 2>>), Float(<<5, 2>>), Float(<<-1, 2>>), Float(<<1999, 2>>),
            Float(<<2001, 2>>), NoneV, Bool(TRUE)} \cup
           {Str(s) : s \in UNION {[1..n -> UapChars] : n \in 0..MaxUapTextLen}} \cup
           {Str(<<"U", "A", "P", "0", "4", "2">>), Str(<<"u", "a", "p", " ", "7">>),
            Str(<<"U", "A", "P", " ", "1", "2", "3", "4">>), Str(<<"1", "2", "a", "3">>)}}

\* the values a JSON text can decode to, one of every top-level type
JsonValues ==
  {NoneV, Dict(EmptyDict), Dict(("uap" :> Str(<<"7">>))), List(<<>>), List(<<Num(1)>>),
   Num(3), Float(<<5, 2>>), Str(<<"a">>), Bool(TRUE)}

\* the texts of a response: empty, not JSON, or JSON; with and without a
\* fence
ResponseTexts ==
  {("fence" :> Str(<<f>>) @@ "text" :> o) :
     f \in {"none", "block", "open"},
     o \in {Outcome("empty", NoneV), Outcome("garbage", NoneV)} \cup
           {Outcome("json", v) : v \in JsonValues}}

UnitFunctions ==
  {"cross_validate_fields", "targeted_field_reextraction", "deduplicate_rebut_items",
   "normalize_rebut_numeric_fields",
   "refine_defauts_records",
   "compute_defauts_daily_totals",
   "normalize_defauts_mark",
   "normalize_date_value",
   "normalize_equipe",
   "normalize_uap",
   "safe_json_parse"}

UnitDocTypes(f) ==
  CASE f = "cross_validate_fields" -> {"Kosu"}
    [] f = "targeted_field_reextraction" -> {"Kosu"}
    [] f = "deduplicate_rebut_items" -> {"Rebut"}
    [] f = "normalize_rebut_numeric_fields" -> {"Rebut"}
    [] f = "refine_defauts_records" -> {"Défauts"}
    [] f = "compute_defauts_daily_totals" -> {"Défauts"}
    [] f = "normalize_defauts_mark" -> {"Défauts"}
    [] f = "normalize_date_value" -> {"Rebut"}
    [] f = "normalize_equipe" -> {"NPT"}
    [] f = "normalize_uap" -> {"NPT"}
    [] f = "safe_json_parse" -> {"Rebut"}

UnitArguments(f, dt) ==
  CASE f = "cross_validate_fields" -> KosuHeaders
    [] f = "targeted_field_reextraction" -> FlaggedHeaders
    [] f = "deduplicate_rebut_items" -> ItemLists \cup MergeLists
    [] f = "normalize_rebut_numeric_fields" -> QuantityLists
    [] f = "refine_defauts_records" -> MarkLists
    [] f = "compute_defauts_daily_totals" -> CountLists
    [] f = "normalize_defauts_mark" -> RawMarks
    [] f = "normalize_date_value" -> DateValues
    [] f = "normalize_equipe" -> EquipeInputs
    [] f = "normalize_uap" -> UapInputs
    [] f = "safe_json_parse" -> ResponseTexts

\* the function to apply is in pc
UnitInit ==
  /\ pc \in UnitFunctions
  /\ doc_type \in UnitDocTypes(pc)
  /\ image = "ok"
  /\ best_result \in UnitArguments(pc, doc_type)
  /\ data = best_result
  /\ attempt = 0
  /\ best_confidence = <<0, 1>>
  /\ attempts = <<>>
  /\ calls = <<>>
  /\ passes = <<>>
  /\ faults = <<>>
  /\ result = EmptyDict
  /\ response = EmptyDict
  /\ session = NewSession
  /\ workers = NoWorkers
  /\ database = {}

\* the function leaves the record d: it returns it, or it raised
UnitReturn(d, raised) ==
  /\ data' = d
  /\ pc' = "unit_done"
  /\ passes' = <<pc>>
  /\ faults' = IF raised THEN <<pc>> ELSE <<>>
  /\ UNCHANGED <<doc_type, image, attempt, best_result, best_confidence, attempts, response,
                 session, workers, database>>

UnitCrossValidateFields ==
  /\ pc = "cross_validate_fields"
  /\ UnitReturn(cross_validate_fields(data, doc_type), FALSE)
  /\ UNCHANGED <<calls, result>>

\* result keeps the flagged fields and the outcomes of their model calls
UnitTargetedFieldReextraction ==
  /\ pc = "targeted_field_reextraction"
  /\ \E fields \in FlaggedLists :
       \E os \in [1..Len(fields) -> FieldOutcomes] :
         /\ UnitReturn(targeted_field_reextraction(data, fields, os), FALSE)
         /\ calls' = [i \in 1..Len(fields) |-> Call(pc, os[i])]
         /\ result' = [problem_fields |-> fields, outcomes |-> os]

UnitDeduplicateRebutItems ==
  /\ pc = "deduplicate_rebut_items"
  /\ UnitReturn(deduplicate_rebut_items(data).data, deduplicate_rebut_items(data).raised)
  /\ UNCHANGED <<calls, result>>

UnitNormalizeRebutNumericFields ==
  /\ pc = "normalize_rebut_numeric_fields"
  /\ UnitReturn(normalize_rebut_numeric_fields(data), FALSE)
  /\ UNCHANGED <<calls, result>>

UnitRefineDefautsRecords ==
  /\ pc = "refine_defauts_records"
  /\ UnitReturn(Put(data, "recorded_defects",
                    List(refine_defauts_records(normalize_defauts_records(DefectsOf(data))))),
                FALSE)
  /\ UNCHANGED <<calls, result>>

UnitComputeDefautsDailyTotals ==
  /\ pc = "compute_defauts_daily_totals"
  /\ UnitReturn(Put(data, "summary_data",
                    Dict([k \in {"daily_totals"} |->
                            List(compute_defauts_daily_totals(DefectsOf(data)).totals)])),
                compute_defauts_daily_totals(DefectsOf(data)).raised)
  /\ UNCHANGED <<calls, result>>

UnitNormalizeDefautsMark ==
  /\ pc = "normalize_defauts_mark"
  /\ UnitReturn(Put(data, "count", normalize_defauts_mark(Get(data, "raw_mark"))), FALSE)
  /\ UNCHANGED <<calls, result>>

UnitNormalizeDateValue ==
  /\ pc = "normalize_date_value"
  /\ UnitReturn(Put(data, "normalized", normalize_date_value(Get(data, "date"))), FALSE)
  /\ UNCHANGED <<calls, result>>

UnitNormalizeEquipe ==
  /\ pc = "normalize_equipe"
  /\ UnitReturn(Put(data, "normalized", normalize_equipe(Get(data, "value"))), FALSE)
  /\ UNCHANGED <<calls, result>>

UnitNormalizeUap ==
  /\ pc = "normalize_uap"
  /\ UnitReturn(Put(data, "normalized", normalize_uap(Get(data, "value"))), FALSE)
  /\ UNCHANGED <<calls, result>>

UnitSafeJsonParse ==
  /\ pc = "safe_json_parse"
  /\ UnitReturn(Put(data, "parsed",
                    safe_json_parse_fenced(Get(data, "fence").s[1], Get(data, "text"))), FALSE)
  /\ UNCHANGED <<calls, result>>

UnitNext ==
  \/ UnitCrossValidateFields
  \/ UnitTargetedFieldReextraction
  \/ UnitDeduplicateRebutItems
  \/ UnitNormalizeRebutNumericFields
  \/ UnitRefineDefautsRecords
  \/ UnitComputeDefautsDailyTotals
  \/ UnitNormalizeDefautsMark
  \/ UnitNormalizeDateValue
  \/ UnitNormalizeEquipe
  \/ UnitNormalizeUap
  \/ UnitSafeJsonParse

SpecUnit == UnitInit /\ [][UnitNext]_vars

----------------------------------------------------------------------------
(* The properties of the pipeline *)

\* the calls of the log made by the primary extraction, and by later passes
PrimaryCalls == {i \in 1..Len(calls) : calls[i].pass = "primary"}

LaterCalls == {i \in 1..Len(calls) : calls[i].pass # "primary"}

\* a call on which the gateway failed: no response, an exception, or text
\* that is not JSON
Failed(c) == c.got \in {"noresponse", "garbage"}

\* pass p has run
HasRun(p) == \E k \in 1..Len(passes) : passes[k] = p

\* the position of p in the sequence seq, 0 when it is not there
PositionIn(seq, p) ==
  IF \E k \in 1..Len(seq) : seq[k] = p THEN CHOOSE k \in 1..Len(seq) : seq[k] = p ELSE 0

\* C1: with a gateway failure at one single pass, what
\* extract_data_from_image returns is a mapping that holds a data key or an
\* error key.
C1_DataOrError ==
  (pc = "returned" /\ Cardinality({i \in 1..Len(calls) : Failed(calls[i])}) = 1)
    => ("data" \in DOMAIN result \/ "error" \in DOMAIN result)

\* C2: when the gateway gave nothing usable on every primary attempt, no
\* later pass calls the model and no success payload is returned.
C2_PrimaryFailureIsFatal ==
  (pc # "retry" /\ PrimaryCalls # {} /\ \A i \in PrimaryCalls : Failed(calls[i]))
    => (LaterCalls = {} /\ (pc = "returned" => "data" \notin DOMAIN result))

\* C3: after a primary extraction that gave a record, a gateway failure in
\* a later verification, recovery or re-extraction call is not fatal: the
\* function returns the success payload {data, remark}.
C3_LaterFailureNotFatal ==
  (pc = "returned" /\ \E i \in LaterCalls : Failed(calls[i]))
    => DOMAIN result = {"data", "remark"}

\* C4: an exception inside one pass skips that pass only: when date
\* normalization starts, every pass of the document-specific sequence has
\* run.
C4_ExceptionSkipsOnePass ==
  (pc = "normalize_all_dates" /\ doc_type \in {"Rebut", "Kosu"})
    => \A k \in 1..Len(type_passes(doc_type)) : HasRun(type_passes(doc_type)[k])

\* C5: when every attempt failed (the gateway erred, the text was not
\* JSON, or the JSON was no mapping), extract_with_confidence_retry
\* returns the empty mapping.
C5_AllFailedGivesEmpty ==
  (pc = "check" /\ \A i \in 1..Len(attempts) : ~attempts[i].mapping)
    => best_result = EmptyDict

\* C6: every attempt of extract_with_confidence_retry is one model call;
\* an attempt that scores 80 or more is the last one; and there are never
\* more than max_retries + 1 of them.
C6_EarlyExit ==
  /\ Cardinality(PrimaryCalls) <= max_retries + 1
  /\ pc \in {"retry", "check"} =>
       /\ Len(attempts) = Cardinality(PrimaryCalls)
       /\ \A i \in 1..Len(attempts) :
            (attempts[i].scored /\ RatGe(attempts[i].combined, <<HighConfidence, 1>>))
              => (i = Len(attempts) /\ pc = "check")

\* the first attempt reached the threshold and the loop ended after it
C6_StoppedAfterFirst ==
  /\ pc = "check"
  /\ Len(attempts) = 1
  /\ attempts[1].scored
  /\ RatGe(attempts[1].combined, <<HighConfidence, 1>>)

\* C7: of the attempts that gave a mapping (each with a score above 0),
\* extract_with_confidence_retry returns the mapping of the one with the
\* highest combined score, the earliest on ties, with that score in
\* final_confidence.
C7_BestMappingReturned ==
  LET gave == {i \in 1..Len(attempts) : attempts[i].mapping} IN
  (pc = "check" /\ gave # {} /\ \A i \in gave : RatGt(attempts[i].combined, <<0, 1>>))
    => \E i \in gave :
         /\ \A j \in gave : RatGe(attempts[i].combined, attempts[j].combined)
         /\ \A j \in gave : attempts[j].combined = attempts[i].combined => i <= j
         /\ best_result = Put(attempts[i].parsed, "final_confidence",
                              Float(attempts[i].combined))

\* C8: when an image and a document type were given and no record is
\* returned, the payload is an error payload that names the document type,
\* in a document_type field or in its message.
C8_ErrorNamesDocumentType ==
  (pc = "returned" /\ image # "nopath" /\ doc_type # "" /\ "data" \notin DOMAIN result)
    => /\ "error" \in DOMAIN result
       /\ \/ Get(result, "document_type") = Str(<<doc_type>>)
          \/ \E k \in 1..Len(result["error"].s) : result["error"].s[k] = doc_type

\* C9: the response says "success" only with an extracted record, and
\* says "error", with a message, for every error payload.
C9_ResponseStatus ==
  pc = "responded" =>
    /\ Get(response, "status") = Str(<<"success">>) => Get(response, "data").t = "dict"
    /\ "error" \in DOMAIN result =>
         (Get(response, "status") = Str(<<"error">>) /\ "message" \in DOMAIN response)

\* the record of the success payload
Returned == result["data"].rows[1]

\* C11: re-extraction calls come after cross-field validation and before
\* the final sanity check, and the record of a successful Kosu run has no
\* 'Nom Ligne' that is a number or a numeric string and no 'Code ligne'
\* that is a string with a character that is no digit.
C11_KosuLineFieldsTyped ==
  /\ \A i \in 1..Len(calls) :
       calls[i].pass = "targeted_field_reextraction" => HasRun("cross_validate_fields")
  /\ HasRun("final_sanity_check") => pc \in {"return", "returned", "responded", "stored"}
  /\ (pc = "returned" /\ doc_type = "Kosu" /\ "data" \in DOMAIN result) =>
       /\ Get(Returned, "Nom Ligne").t # "num"
       /\ ~(Get(Returned, "Nom Ligne").t = "str" /\
            isdigit(strip(Get(Returned, "Nom Ligne").s)))
       /\ Get(Returned, "Code ligne").t = "str" =>
            \A i \in 1..Len(strip(Get(Returned, "Code ligne").s)) :
              strip(Get(Returned, "Code ligne").s)[i] \in Digits

\* the order of the Rebut passes
RebutOrder ==
  <<"primary", "verify_rebut_totals_1", "recover_rebut_missing_rows",
    "verify_rebut_totals_2", "deduplicate_rebut_items", "verify_rebut_totals_3",
    "normalize_rebut_numeric_fields", "normalize_all_dates",
    "validate_extraction_against_template", "cross_validate_fields",
    "targeted_field_reextraction", "final_sanity_check">>

\* C10: the passes of a Rebut page run in the fixed order: each pass that
\* has run is one of RebutOrder and comes later in it than every pass
\* before it; and as long as none has raised, none but the conditional
\* re-extraction is left out.
C10_FixedOrder ==
  doc_type = "Rebut" =>
    /\ \A i \in 1..Len(passes) : PositionIn(RebutOrder, passes[i]) > 0
    /\ \A i, j \in 1..Len(passes) :
         i < j => PositionIn(RebutOrder, passes[i]) < PositionIn(RebutOrder, passes[j])
    /\ faults = <<>> =>
         \A k \in 1..Len(RebutOrder) :
           (/\ passes # <<>>
            /\ k < PositionIn(RebutOrder, passes[Len(passes)])
            /\ RebutOrder[k] # "targeted_field_reextraction") => HasRun(RebutOrder[k])

\* a Rebut page went through deduplication, the last verification of the
\* totals and the numeric normalization, and on to its end
C10_RebutPageDone ==
  /\ doc_type = "Rebut"
  /\ pc = "returned"
  /\ faults = <<>>
  /\ HasRun("deduplicate_rebut_items")
  /\ HasRun("verify_rebut_totals_3")
  /\ HasRun("normalize_rebut_numeric_fields")
  /\ HasRun("final_sanity_check")

\* the value cross_validate_fields was applied to, and the value it returned
Argument == best_result

Applied(f) == pc = "unit_done" /\ passes = <<f>>

\* the same value, or the same text up to surrounding blanks
SameText(a, b) == a = b \/ (a.t = "str" /\ b.t = "str" /\ strip(a.s) = strip(b.s))

\* a string 'Code ligne' reduced to its digits, None when it holds none
ReducedCode(code) ==
  IF code.t = "str" /\ code.s # <<>>
  THEN IF digits_only(code.s) = <<>> THEN NoneV ELSE Str(digits_only(code.s))
  ELSE code

\* a line name that is a number, or text made of digits only
PurelyNumeric(nom) == nom.t = "num" \/ (nom.t = "str" /\ isdigit(strip(nom.s)))

\* the number as the text that is moved into 'Code ligne'
NumericText(nom) == IF nom.t = "str" THEN Str(strip(nom.s)) ELSE Str(str_of(nom))

\* C12: cross_validate_fields on a Kosu record reduces a string 'Code ligne'
\* to its digits (None when none remain); it always sets a purely numeric
\* 'Nom Ligne' to None, and puts that number into 'Code ligne' exactly when
\* 'Code ligne' is empty after its own reduction.
C12_KosuTypeEnforcement ==
  (Applied("cross_validate_fields") /\ doc_type = "Kosu") =>
    LET nom == Get(Argument, "Nom Ligne")
        reduced == ReducedCode(Get(Argument, "Code ligne"))
    IN IF PurelyNumeric(nom)
       THEN /\ Get(data, "Nom Ligne") = NoneV
            /\ SameText(Get(data, "Code ligne"),
                        IF Truthy(reduced) THEN reduced ELSE NumericText(nom))
       ELSE SameText(Get(data, "Code ligne"), reduced)

\* C12 for every line name but the number 0
C12_NonZeroLineName ==
  Get(Argument, "Nom Ligne") # Num(0) => C12_KosuTypeEnforcement

\* the example of the specification: "15" as the name of a line without code
C12_Example ==
  (Applied("cross_validate_fields") /\ doc_type = "Kosu" /\
   Get(Argument, "Nom Ligne") = Str(<<"1", "5">>) /\ Get(Argument, "Code ligne") = NoneV) =>
     (Get(data, "Nom Ligne") = NoneV /\ Get(data, "Code ligne") = Str(<<"1", "5">>))

\* two values the duplicate check takes for the same: the same text once
\* trimmed and in lower case
Collide(a, b) ==
  /\ a.t = "str" /\ b.t = "str"
  /\ strip(a.s) # <<>>
  /\ lower(strip(a.s)) = lower(strip(b.s))

\* the header field i of the record
Field(rec, i) == Get(rec, other_header_fields[i])

\* the collision of field j is in the log the record carries
CollisionLogged(rec, j) ==
  /\ "cross_validation_corrections" \in DOMAIN rec
  /\ \E e \in 1..Len(rec["cross_validation_corrections"].rows) :
       LET line == rec["cross_validation_corrections"].rows[e] IN
       /\ line.tag = Str(<<"DUPLICATE VALUE">>)
       /\ line.mentions.s[Len(line.mentions.s)] = other_header_fields[j]
       /\ line.value = Field(Argument, j)

\* the team rule or the week rule, which run after the duplicate check,
\* reject the value of field i
RejectedLater(i) ==
  LET v == Field(Argument, i) IN
  \/ /\ other_header_fields[i] = "Equipe"
     /\ ~team_pattern(strip(v.s))
  \/ /\ other_header_fields[i] = "Semaine"
     /\ digits_only(v.s) # <<>>
     /\ (int_of(digits_only(v.s)) < MinWeek \/ int_of(digits_only(v.s)) > MaxWeek)

\* field i holds the first occurrence of its value
FirstOccurrence(i) == \A h \in 1..(i - 1) : ~Collide(Field(Argument, h), Field(Argument, i))

\* C13: after cross_validate_fields on a Kosu record no two of Equipe, Jour,
\* Semaine, Numéro OF, Ref PF hold the same trimmed, case-insensitive text;
\* on a collision the field that comes first keeps its value, the later one
\* is None, and the collision is logged.
C13_FirstFieldWins ==
  (Applied("cross_validate_fields") /\ doc_type = "Kosu") =>
    \A i, j \in 1..Len(other_header_fields) :
      i < j =>
        /\ ~Collide(Field(data, i), Field(data, j))
        /\ Collide(Field(Argument, i), Field(Argument, j)) =>
             /\ Field(data, j) = NoneV
             /\ CollisionLogged(data, j)
             /\ FirstOccurrence(i) => Field(data, i) = Field(Argument, i)

\* what holds of the collisions: the later field is None and logged, and the
\* first field keeps its value unless the team rule or the week rule that
\* follow reject it
NoSharedValue ==
  (Applied("cross_validate_fields") /\ doc_type = "Kosu") =>
    \A i, j \in 1..Len(other_header_fields) :
      i < j =>
        /\ ~Collide(Field(data, i), Field(data, j))
        /\ Collide(Field(Argument, i), Field(Argument, j)) =>
             /\ Field(data, j) = NoneV
             /\ CollisionLogged(data, j)
             /\ FirstOccurrence(i) =>
                  Field(data, i) = IF RejectedLater(i) THEN NoneV ELSE Field(Argument, i)

\* a header with the same text in two fields, the first of which is kept
CollisionSettled ==
  /\ Applied("cross_validate_fields") /\ doc_type = "Kosu"
  /\ \E i, j \in 1..Len(other_header_fields) :
       /\ i < j
       /\ Collide(Field(Argument, i), Field(Argument, j))
       /\ Field(data, i) = Field(Argument, i)
       /\ Field(data, j) = NoneV

\* the model answered the prompt of flagged field i with a mapping that
\* holds, under the name of the field, a value that is not None, '' or
\* 'null'
Answered(i) ==
  LET o == result.outcomes[i]
      field == result.problem_fields[i]
  IN /\ o.kind = "json"
     /\ o.val.t = "dict"
     /\ field \in DOMAIN o.val.rows[1]
     /\ o.val.rows[1][field].t # "none"
     /\ o.val.rows[1][field] \notin {Str(<<>>), Str(<<"n", "u", "l", "l">>)}

Templates == {"Equipe", "Nom Ligne", "Code ligne", "uap", "jap"}

\* C14: targeted_field_reextraction changes a field only if it is flagged,
\* has a prompt template, and the model returned for it a value that is not
\* null, not empty and not the current one; the field then holds that value.
\* Every other field, and every flagged field without a template or with a
\* failed or empty answer, is as it was; no key is added or removed.
C14_OnlyAnsweredFlaggedFields ==
  Applied("targeted_field_reextraction") =>
    /\ DOMAIN data = DOMAIN Argument
    /\ \A k \in DOMAIN Argument :
         data[k] # Argument[k] =>
           \E i \in 1..Len(result.problem_fields) :
             /\ result.problem_fields[i] = k
             /\ k \in Templates
             /\ Answered(i)
             /\ result.outcomes[i].val.rows[1][k] # Argument[k]
             /\ data[k] = result.outcomes[i].val.rows[1][k]

\* one flagged field takes the value of its answer while another, whose
\* call failed, and a field that was not flagged stay as they were
C14_OneFieldReextracted ==
  /\ Applied("targeted_field_reextraction")
  /\ result.problem_fields = <<"Equipe", "Code ligne">>
  /\ result.outcomes[1].kind = "garbage"
  /\ Answered(2)
  /\ data["Code ligne"] # Argument["Code ligne"]
  /\ Argument["Equipe"] # NoneV /\ data["Equipe"] = Argument["Equipe"]
  /\ Argument["Nom Ligne"] # NoneV /\ data["Nom Ligne"] = Argument["Nom Ligne"]

\* the keys under which a record carries a log of the validation passes
LogKeys == {"validation_warnings", "cross_validation_corrections"}

\* a log of the record has a line that quotes the value v
Logged(rec, v) ==
  \E key \in LogKeys \cap DOMAIN rec :
    \E e \in 1..Len(rec[key].rows) : rec[key].rows[e].value = v

\* a step of a validation pass logs the old value of every field it changes
LoggedStep ==
  pc \in {"validate_extraction_against_template", "cross_validate_fields"} =>
    \A k \in DOMAIN data \ LogKeys : Get(data', k) # data[k] => Logged(data', data[k])

\* C15: every change that template validation or cross-field validation
\* makes to a field of the record, an auto-correction or a clearing to None,
\* is an entry of a correction log that the record carries from then on.
C15_ChangesLogged == [][LoggedStep]_vars

\* the value under key of the mapping under 'header', None without either
HeaderValue(rec, key) ==
  IF Get(rec, "header").t = "dict" THEN Get(rec["header"].rows[1], key) ELSE NoneV

\* None, or a string of 1 to k digits
NullOrDigits(v, k) ==
  \/ v = NoneV
  \/ /\ v.t = "str"
     /\ Len(v.s) \in 1..k
     /\ \A i \in 1..Len(v.s) : v.s[i] \in Digits

\* C16: once the validation passes have run, the uap under 'header' of an
\* NPT record is None or 1 to 3 digits, and the jap under 'header' of a
\* Rebut record is None or 1 to 4 digits.
C16_NestedCodesShaped ==
  HasRun("final_sanity_check") =>
    /\ doc_type = "NPT" => NullOrDigits(HeaderValue(data, "uap"), UapDigits)
    /\ doc_type = "Rebut" => NullOrDigits(HeaderValue(data, "jap"), JapDigits)

\* the record that went to the client or to the persistence layer
Delivered == response["data"].rows[1]

\* the header of the record went through normalize_uap and normalize_equipe
Normalized(rec) ==
  /\ NullOrDigits(HeaderValue(rec, "uap"), MaxUapLen)
  /\ HeaderValue(rec, "UAP") = NoneV
  /\ \/ HeaderValue(rec, "equipe") = NoneV
     \/ /\ HeaderValue(rec, "equipe").t = "str"
        /\ HeaderValue(rec, "equipe").s \in VALID_ROMANS

\* C17: an NPT record that reaches the client (single upload) or the
\* persistence layer (batch) has a header.uap that is None or 1 to 3
\* digits and a header.equipe that is None or a Roman numeral I..X.
C17_NptNormalizedOnBothPaths ==
  (pc \in {"responded", "stored"} /\ doc_type = "NPT" /\ Get(response, "data").t = "dict") =>
    Normalized(Delivered)

\* the single-upload path alone
SingleUploadNormalized ==
  (pc = "responded" /\ doc_type = "NPT" /\ Get(response, "data").t = "dict") =>
    Normalized(Delivered)

\* the top-level keys of the SCHEMA that the prompt of a document type gives
schema_keys(dt) ==
  CASE dt = "Rebut" -> {"document_type", "header", "items", "notes"}
    [] dt = "Kosu" -> {"document_type", "Titre du document", "Référence du document",
                       "Date du document", "Equipe", "Nom Ligne", "Code ligne", "Jour",
                       "Semaine", "Numéro OF", "Ref PF", "Suivi horaire", "Total / Equipe",
                       "Règles d'escalade", "remark"}
    [] dt = "NPT" -> {"document_type", "header", "downtime_events"}
    [] dt \in DefautsTypes -> {"document_type", "entry_header", "recorded_defects", "notes"}
    [] OTHER -> {}

\* C18: the record of a run that completed successfully holds every key of
\* the schema of its document type, whatever keys the model returned.
C18_SchemaKeysPresent ==
  (pc = "returned" /\ Get(result, "data").t = "dict") =>
    schema_keys(doc_type) \subseteq DOMAIN Returned

\* what the code does fill in: document_type, and for Défauts entry_header
\* and recorded_defects
FilledKeysPresent ==
  (pc = "returned" /\ Get(result, "data").t = "dict") =>
    /\ "document_type" \in DOMAIN Returned
    /\ doc_type \in DefautsTypes =>
         {"entry_header", "recorded_defects"} \subseteq DOMAIN Returned

\* C19: a Défauts run whose primary extraction parsed to a mapping with a
\* list of marks reports success, with daily totals, also when the day or
\* the station of some marks is None and that of others is not.
C19_DefautsNullKeysSucceed ==
  (pc = "returned" /\ doc_type \in DefautsTypes /\ HasRun("defauts_finish") /\
   Get(data, "recorded_defects").t = "list") =>
    /\ "data" \in DOMAIN result
    /\ "summary_data" \in DOMAIN Returned
    /\ "daily_totals" \in DOMAIN Returned["summary_data"].rows[1]

\* the same for marks whose counted keys can be put in order: all days are
\* strings, or all None, and so for the stations of one day
OrderableKeysSucceed ==
  (pc = "returned" /\ doc_type \in DefautsTypes /\ HasRun("defauts_finish") /\
   Get(data, "recorded_defects").t = "list" /\
   ~unorderable(total_keys(refine_defauts_records(
                             normalize_defauts_records(data["recorded_defects"].rows))))) =>
    /\ "data" \in DOMAIN result
    /\ "summary_data" \in DOMAIN Returned

\* a row without a reference: missing, empty or blanks only
Anonymous(row) ==
  \/ ~Truthy(Get(row, "reference"))
  \/ (Get(row, "reference").t = "str" /\ strip(Get(row, "reference").s) = <<>>)

\* the key of a row that has a reference: the reference, trimmed when text
Key(row) ==
  IF Get(row, "reference").t = "str" THEN Str(strip(row["reference"].s))
  ELSE Get(row, "reference")

\* the positions of the rows that open a key: the anonymous rows, and of
\* the others the first with its reference
RECURSIVE Openers(_, _)
Openers(rows, i) ==
  IF i > Len(rows) THEN <<>>
  ELSE IF Anonymous(rows[i]) \/
          ~\E h \in 1..(i - 1) : ~Anonymous(rows[h]) /\ Key(rows[h]) = Key(rows[i])
       THEN <<i>> \o Openers(rows, i + 1)
       ELSE Openers(rows, i + 1)

\* the three properties of the list out left for the list in
Deduplicated(in, out) ==
  /\ \A i, j \in 1..Len(out) :
       (i < j /\ ~Anonymous(out[i]) /\ ~Anonymous(out[j])) => Key(out[i]) # Key(out[j])
  /\ Len(out) = Len(Openers(in, 1))
  /\ \A k \in 1..Len(out) :
       IF Anonymous(in[Openers(in, 1)[k]])
       THEN out[k] = in[Openers(in, 1)[k]]
       ELSE ~Anonymous(out[k]) /\ Key(out[k]) = Key(in[Openers(in, 1)[k]])

\* C20: after deduplicate_rebut_items, for any list of items, no two rows
\* have the same non-empty trimmed reference, every row without a reference
\* is still there as a row of its own, and the rows are in the order in
\* which their keys first occurred.
C20_DeduplicatedInOrder ==
  Applied("deduplicate_rebut_items") => Deduplicated(ItemsOf(Argument), ItemsOf(data))

\* the same for the lists on which the function returns
ReturnedDeduplicated ==
  (Applied("deduplicate_rebut_items") /\ faults = <<>>) =>
    Deduplicated(ItemsOf(Argument), ItemsOf(data))

\* a list with a row without a reference, and a reference that occurs twice
DuplicateDropped ==
  /\ Applied("deduplicate_rebut_items") /\ faults = <<>>
  /\ Len(ItemsOf(data)) = 2 /\ Len(ItemsOf(Argument)) = 3
  /\ \E k \in 1..2 : Anonymous(ItemsOf(data)[k])

\* the argument is a row followed by a sparse row with the same reference:
\* at most two fields of the later row are not None, '' or 'null'
SparseRepeat ==
  /\ Applied("deduplicate_rebut_items")
  /\ Argument \in MergeLists
  /\ Cardinality({k \in DOMAIN ItemsOf(Argument)[2] :
                    ItemsOf(Argument)[2][k].t # "none" /\
                    ItemsOf(Argument)[2][k] \notin {Str(<<>>), Str(<<"n", "u", "l", "l">>)}}) <= 2

\* the quantity of the later row goes into the total of the existing row
TotalTaken(existing, q) ==
  /\ Get(existing, "total_scrapped").t = "none" \/
     Get(existing, "total_scrapped") \in {Str(<<>>), Str(<<"n", "u", "l", "l">>)}
  /\ q.t = "num"
  /\ q.n <= 50 * q.d
  /\ _parse_number(Get(existing, "quantity")) # q

\* C21: a later Rebut row that repeats a reference and has at most two
\* non-empty fields gives its quantity q to the total_scrapped of the
\* existing row exactly when that total is empty, q is a number, q <= 50
\* and q is not the numeric quantity of the existing row; in every other
\* case the total is unchanged.  One row is left for the reference.
C21_SparseRowGivesTotal ==
  SparseRepeat =>
    LET existing == ItemsOf(Argument)[1]
        q == _parse_number(Get(ItemsOf(Argument)[2], "quantity"))
    IN /\ Len(ItemsOf(data)) = 1
       /\ Get(ItemsOf(data)[1], "total_scrapped") =
            IF TotalTaken(existing, q)
            THEN (IF q.d = 1 THEN Num(q.n) ELSE q)
            ELSE Get(existing, "total_scrapped")

\* the example: {R1, quantity 5, total null} followed by {R1, quantity 3}
C21_ThreeTaken ==
  /\ SparseRepeat
  /\ Get(ItemsOf(Argument)[1], "quantity") = Num(5)
  /\ Get(ItemsOf(Argument)[1], "total_scrapped") = NoneV
  /\ Get(ItemsOf(Argument)[2], "quantity") = Num(3)
  /\ Len(ItemsOf(data)) = 1
  /\ Get(ItemsOf(data)[1], "total_scrapped") = Num(3)

\* the total t is implausible next to the quantity q: t > 5*q and t > 50
Implausible(q, t) ==
  /\ q.t = "num"
  /\ t.t = "num"
  /\ t.n * q.d > 5 * q.n * t.d
  /\ t.n > 50 * t.d

\* C22: after normalize_rebut_numeric_fields no Rebut row has a numeric
\* quantity q and a numeric total_scrapped t with t > 5*q and t > 50; a
\* total that was a number is nulled only when both conditions hold and is
\* otherwise left as it was.
C22_ImplausibleTotalsNulled ==
  Applied("normalize_rebut_numeric_fields") =>
    /\ Len(ItemsOf(data)) = Len(ItemsOf(Argument))
    /\ \A i \in 1..Len(ItemsOf(data)) :
         LET q == Get(ItemsOf(data)[i], "quantity")
             t == Get(ItemsOf(data)[i], "total_scrapped")
             t0 == Get(ItemsOf(Argument)[i], "total_scrapped")
         IN /\ ~Implausible(q, t)
            /\ t0.t = "num" => t = IF Implausible(q, t0) THEN NoneV ELSE t0

\* the total 51 next to the quantity 10 was dropped, and the total 55 next
\* to the quantity 11 (above 50, not above five times 11) was kept
C22_TotalNulled ==
  /\ Applied("normalize_rebut_numeric_fields")
  /\ Len(ItemsOf(data)) = 2
  /\ Get(ItemsOf(Argument)[1], "total_scrapped") = Num(51)
  /\ Get(ItemsOf(data)[1], "quantity") = Num(10)
  /\ Get(ItemsOf(data)[1], "total_scrapped") = NoneV
  /\ Get(ItemsOf(Argument)[2], "quantity") = Num(11)
  /\ Get(ItemsOf(data)[2], "total_scrapped") = Num(55)

\* a code that is null or an upper-case string of 1 to 10 letters, digits
\* and dashes
CodeShaped(code) ==
  \/ code.t = "none"
  \/ /\ code.t = "str"
     /\ Len(code.s) \in 1..10
     /\ \A i \in 1..Len(code.s) : code.s[i] \in AsciiUppers \cup Digits \cup {"-"}

\* a record that may be retained
Refined(r) ==
  /\ Get(r, "day").t = "none" \/ (Get(r, "day").t = "str" /\ Get(r, "day").s \in DefautsDays)
  /\ Get(r, "station").t = "none" \/
     (Get(r, "station").t = "str" /\ Get(r, "station").s \in DefautsStations)
  /\ CodeShaped(Get(r, "code"))
  /\ Get(r, "count").t = "none" \/ (Get(r, "count").t = "num" /\ Get(r, "count").n <= 50 * Get(r, "count").d)
  /\ Get(r, "raw_mark") \notin {NoneV, Str(<<>>)} \/ Get(r, "count").t # "none"

Cell(r) == <<Get(r, "code"), Get(r, "day"), Get(r, "station"), Get(r, "raw_mark")>>

\* C23: after normalization and refinement of a list of Défauts marks every
\* retained record has a day of Lun..Sam or null, a station of E1..E3 or
\* null, a code that is null or an upper-case string of 1 to 10 letters,
\* digits and dashes, a count that is null or at most 50, a non-empty raw
\* mark or a count, and no two retained records share the tuple
\* (code, day, station, raw_mark).
C23_RefinedRecords ==
  Applied("refine_defauts_records") =>
    /\ \A i \in 1..Len(DefectsOf(data)) : Refined(DefectsOf(data)[i])
    /\ \A i, j \in 1..Len(DefectsOf(data)) :
         Cell(DefectsOf(data)[i]) = Cell(DefectsOf(data)[j]) => i = j

\* the same, for the lists of marks whose codes are strings or null
C23_TextCodesRefined ==
  (/\ Applied("refine_defauts_records")
   /\ \A i \in 1..Len(DefectsOf(Argument)) :
        Get(DefectsOf(Argument)[i], "code").t \in {"none", "str"}) =>
    /\ \A i \in 1..Len(DefectsOf(data)) : Refined(DefectsOf(data)[i])
    /\ \A i, j \in 1..Len(DefectsOf(data)) :
         Cell(DefectsOf(data)[i]) = Cell(DefectsOf(data)[j]) => i = j

\* of two marks of one cell the second was dropped, and the count 51 of
\* the first was nulled
C23_DuplicateMarkDropped ==
  /\ Applied("refine_defauts_records")
  /\ Len(DefectsOf(Argument)) = 2
  /\ Len(DefectsOf(data)) = 1
  /\ Get(DefectsOf(data)[1], "raw_mark") = Str(<<"5", "1">>)
  /\ Get(DefectsOf(data)[1], "count") = NoneV
  /\ Get(DefectsOf(data)[1], "code") = Str(<<"A", "-", "1">>)

\* the daily totals that were returned
DailyTotals == Get(data, "summary_data").rows[1]["daily_totals"].rows

\* the records of the argument that carry a count
Counted == {i \in 1..Len(DefectsOf(Argument)) : Get(DefectsOf(Argument)[i], "count") # NoneV}

Pair(r) == <<Get(r, "day"), Get(r, "station")>>

\* the sum of the counts of the records at the places in S
RECURSIVE CountSum(_)
CountSum(S) ==
  IF S = {} THEN 0
  ELSE LET i == CHOOSE j \in S : TRUE
       IN Get(DefectsOf(Argument)[i], "count").n + CountSum(S \ {i})

RECURSIVE TotalSum(_)
TotalSum(S) ==
  IF S = {} THEN 0
  ELSE LET i == CHOOSE j \in S : TRUE
       IN DailyTotals[i]["total_defauts"].n + TotalSum(S \ {i})

\* a comes before b in the order of (day, station)
PairBefore(a, b) ==
  \/ str_lt(a[1].s, b[1].s)
  \/ a[1] = b[1] /\ str_lt(a[2].s, b[2].s)

\* one entry for each (day, station) with a count, its total the sum of
\* the counts, the entries in the order of (day, station)
TotalsRight ==
  /\ faults = <<>>
  /\ {Pair(DailyTotals[i]) : i \in 1..Len(DailyTotals)} =
       {Pair(DefectsOf(Argument)[i]) : i \in Counted}
  /\ Len(DailyTotals) = Cardinality({Pair(DefectsOf(Argument)[i]) : i \in Counted})
  /\ \A i \in 1..Len(DailyTotals) :
       DailyTotals[i]["total_defauts"] =
         Num(CountSum({j \in Counted : Pair(DefectsOf(Argument)[j]) = Pair(DailyTotals[i])}))
  /\ \A i, j \in 1..Len(DailyTotals) :
       i < j => PairBefore(Pair(DailyTotals[i]), Pair(DailyTotals[j]))
  /\ TotalSum(1..Len(DailyTotals)) = CountSum(Counted)

\* C24: compute_defauts_daily_totals returns one entry for each distinct
\* (day, station) that has a count, with total_defauts the sum of those
\* counts, the entries sorted by (day, station); the totals add up to the
\* sum of all counts of the input.
C24_DailyTotals ==
  Applied("compute_defauts_daily_totals") => TotalsRight

\* the same for records whose counted keys can be put in order
C24_OrderableTotals ==
  (Applied("compute_defauts_daily_totals") /\
   ~unorderable({Pair(DefectsOf(Argument)[i]) : i \in Counted})) => TotalsRight

\* three counted marks of two days gave two totals, of 3 and of 2
C24_TwoTotals ==
  /\ Applied("compute_defauts_daily_totals")
  /\ Len(DefectsOf(Argument)) = 3
  /\ faults = <<>>
  /\ Len(DailyTotals) = 2
  /\ DailyTotals[1]["total_defauts"] = Num(3)
  /\ DailyTotals[2]["total_defauts"] = Num(2)

\* the count that the rules on text give for the text s: digits, digits
\* followed by X, a run of tally characters, anything else
MarkCount(s) ==
  IF s # <<>> /\ \A i \in 1..Len(s) : s[i] \in Digits THEN Num(int_of(s))
  ELSE IF Len(s) >= 2 /\ s[Len(s)] = "X" /\ \A i \in 1..(Len(s) - 1) : s[i] \in Digits
       THEN Num(int_of(SubSeq(s, 1, Len(s) - 1)))
  ELSE IF s # <<>> /\ \A i \in 1..Len(s) : s[i] \in {"X", "U+2713", "U+2714"} THEN Num(Len(s))
  ELSE NoneV

RawMark == Get(Argument, "raw_mark")

\* C25 as stated: a string of digits gives its integer value, digits
\* followed by X give the value of the digits, a run of n tally characters
\* gives n, the empty string and anything else give null.
C25_MarkCountedAsWritten ==
  Applied("normalize_defauts_mark") =>
    Get(data, "count") = IF RawMark.t = "str" THEN MarkCount(RawMark.s) ELSE NoneV

\* C25: a number or boolean gives its integer part; text is trimmed and
\* upper-cased and then a string of digits gives its integer value, digits
\* followed by X give the value of the digits, a run of n tally characters
\* gives n, the empty string and anything else give null; None gives null.
C25_MarkCounted ==
  Applied("normalize_defauts_mark") =>
    Get(data, "count") =
      CASE RawMark.t = "str" -> MarkCount(upper(strip(RawMark.s)))
        [] RawMark.t \in {"num", "bool"} ->
             Num(IF RawMark.n >= 0 THEN RawMark.n \div RawMark.d
                 ELSE -((-RawMark.n) \div RawMark.d))
        [] OTHER -> NoneV

\* the mark "2x" was counted as 2
C25_TwoCounted ==
  /\ Applied("normalize_defauts_mark")
  /\ RawMark = Str(<<"2", "x">>)
  /\ Get(data, "count") = Num(2)

\* the text of the date that was given
DateText == Get(Argument, "date").s

\* the number written at the places a..b of the date
Field2(a, b) ==
  IF \A i \in a..b : DateText[i] \in Digits THEN int_of(SubSeq(DateText, a, b)) ELSE -1

\* day, month and year make a date of the calendar
RealDate(day, month, year) ==
  /\ month \in 1..12
  /\ day >= 1
  /\ day <= CASE month \in {1, 3, 5, 7, 8, 10, 12} -> 31
              [] month \in {4, 6, 9, 11} -> 30
              [] OTHER -> IF year % 400 = 0 \/ (year % 4 = 0 /\ year % 100 # 0) THEN 29 ELSE 28

\* the date is written DD<sep>MM<sep>YYYY with a separator of seps
Written(seps) ==
  /\ Len(DateText) = 10
  /\ DateText[3] \in seps
  /\ DateText[6] = DateText[3]
  /\ Field2(1, 2) >= 0 /\ Field2(4, 5) >= 0 /\ Field2(7, 10) >= 0

\* C26: a valid canonical date d in zero-padded DD/MM/YYYY form, a real
\* calendar date of the years 1900..2100, is normalized to d itself.
C26_CanonicalDateKept ==
  (/\ Applied("normalize_date_value")
   /\ Written({"/"})
   /\ RealDate(Field2(1, 2), Field2(4, 5), Field2(7, 10))
   /\ Field2(7, 10) \in 1900..2100) =>
    Get(data, "normalized") = Get(Argument, "date")

\* the canonical date 29/02/2024 came back as it is
C26_LeapDayKept ==
  /\ Applied("normalize_date_value")
  /\ DateText = <<"2", "9", "/", "0", "2", "/", "2", "0", "2", "4">>
  /\ Get(data, "normalized") = Str(DateText)

\* the date is written DDMMYYYY
WrittenBare == Len(DateText) = 8 /\ Field2(1, 8) >= 0

\* the date is written YYYY-MM-DD
WrittenYearFirst ==
  /\ Len(DateText) = 10
  /\ DateText[5] = "-" /\ DateText[8] = "-"
  /\ Field2(1, 4) >= 0 /\ Field2(6, 7) >= 0 /\ Field2(9, 10) >= 0

\* the day, month and year that the date gives
DayMonthYear ==
  CASE Written({"/", "-", "."}) -> <<Field2(1, 2), Field2(4, 5), Field2(7, 10)>>
    [] WrittenBare -> <<Field2(1, 2), Field2(3, 4), Field2(5, 8)>>
    [] WrittenYearFirst -> <<Field2(9, 10), Field2(6, 7), Field2(1, 4)>>
    [] OTHER -> <<>>

\* DD/MM/YYYY of the day, month and year that the date gives
Canonical ==
  IF WrittenBare
  THEN SubSeq(DateText, 1, 2) \o <<"/">> \o SubSeq(DateText, 3, 4) \o <<"/">> \o
       SubSeq(DateText, 5, 8)
  ELSE SubSeq(DateText, 1, 2) \o <<"/">> \o SubSeq(DateText, 4, 5) \o <<"/">> \o
       SubSeq(DateText, 7, 10)

\* C27: the renderings DD-MM-YYYY, DD.MM.YYYY, DD/MM/YYYY and DDMMYYYY of a
\* real calendar date of the years 1900..2100 all normalize to its
\* zero-padded DD/MM/YYYY; a day, month and year that are no date of the
\* calendar normalize to null.
C27_RenderingsAgree ==
  (Applied("normalize_date_value") /\ DayMonthYear # <<>>) =>
    /\ (/\ Written({"/", "-", "."}) \/ WrittenBare
        /\ RealDate(DayMonthYear[1], DayMonthYear[2], DayMonthYear[3])
        /\ DayMonthYear[3] \in 1900..2100) =>
         Get(data, "normalized") = Str(Canonical)
    /\ ~RealDate(DayMonthYear[1], DayMonthYear[2], DayMonthYear[3]) =>
         Get(data, "normalized") = NoneV

\* 29022024 gave 29/02/2024
C27_BareDateNormalized ==
  /\ Applied("normalize_date_value")
  /\ DateText = <<"2", "9", "0", "2", "2", "0", "2", "4">>
  /\ Get(data, "normalized") = Str(<<"2", "9", "/", "0", "2", "/", "2", "0", "2", "4">>)

\* the Roman numerals I..X
Romans ==
  <<<<"I">>, <<"I", "I">>, <<"I", "I", "I">>, <<"I", "V">>, <<"V">>, <<"V", "I">>,
    <<"V", "I", "I">>, <<"V", "I", "I", "I">>, <<"I", "X">>, <<"X">>>>

Value == Get(Argument, "value")

\* C28: for every integer n of 1..10 normalize_equipe(n) and
\* normalize_equipe(str(n)) are both the Roman numeral of n, and every
\* result of normalize_equipe is null or one of the numerals I..X.
C28_EquipeRoman ==
  Applied("normalize_equipe") =>
    /\ Get(data, "normalized") \in {NoneV} \cup {Str(Romans[n]) : n \in 1..10}
    /\ \A n \in 1..10 :
         Value \in {Num(n), Str(str_of_int(n))} => Get(data, "normalized") = Str(Romans[n])

\* "7" gave "VII"
C28_SevenRoman ==
  /\ Applied("normalize_equipe")
  /\ Value = Str(<<"7">>)
  /\ Get(data, "normalized") = Str(<<"V", "I", "I">>)

\* the text of the team upper-cased, É folded to E, the words EQUIPE and
\* TEAM removed
Folded ==
  strip(remove_sub(remove_sub(replace_char(upper(strip(Value.s)), "É", "E"),
                              <<"E", "Q", "U", "I", "P", "E">>), <<"T", "E", "A", "M">>))

\* the folded text is a digit string of 1..10 or one of the numerals I..X
TeamNamed ==
  \/ Folded # <<>> /\ (\A i \in 1..Len(Folded) : Folded[i] \in Digits) /\ int_of(Folded) \in 1..10
  \/ \E n \in 1..10 : Folded = Romans[n]

\* C29: normalize_equipe returns null for any text that, upper-cased, É
\* folded to E and the words EQUIPE and TEAM removed, is neither a digit
\* string of 1..10 nor exactly one of the numerals I..X.
C29_OtherTextNull ==
  (Applied("normalize_equipe") /\ Value.t = "str" /\ ~TeamNamed) =>
    Get(data, "normalized") = NoneV

\* the same for text that holds letters of Roman numerals only
C29_RomanLettersNull ==
  (/\ Applied("normalize_equipe")
   /\ Value.t = "str"
   /\ ~TeamNamed
   /\ \A i \in 1..Len(Folded) : Folded[i] \in {"I", "V", "X", "L", "C", "D", "M"}) =>
    Get(data, "normalized") = NoneV

\* the result is null or a string of 1 to 3 decimal digits
UapShaped(r) ==
  \/ r = NoneV
  \/ r.t = "str" /\ Len(r.s) \in 1..3 /\ \A i \in 1..Len(r.s) : r.s[i] \in Digits

\* the digits left of the text of the value: upper-cased, "UAP" removed,
\* every character that is no digit removed; null when none or more than
\* three are left
DigitsLeft ==
  LET left == SelectSeq(remove_sub(upper(strip(Value.s)), <<"U", "A", "P">>),
                        LAMBDA c : c \in Digits)
  IN IF Len(left) \in 1..3 THEN Str(left) ELSE NoneV

\* the whole part of the number that was given
Whole == IF Value.n >= 0 THEN Value.n \div Value.d ELSE -((-Value.n) \div Value.d)

\* C30 as stated: for a number n the digits of n come back exactly when
\* 0 < n < 1000 (the digits of its whole part when n is a fraction).
C30_UapOfNumberInRange ==
  (Applied("normalize_uap") /\ Value.t = "num") =>
    Get(data, "normalized") =
      IF 0 < Value.n /\ Value.n < 1000 * Value.d THEN Str(str_of_int(Whole)) ELSE NoneV

\* C30: normalize_uap returns null or a string of 1 to 3 decimal digits for
\* every input; for a number it returns the digits of its whole part
\* exactly when that whole part is in 1..999; for text it returns the
\* digits left after upper-casing, removing "UAP" and removing every
\* character that is no digit, null when none or more than three are left.
C30_UapDigits ==
  Applied("normalize_uap") =>
    /\ UapShaped(Get(data, "normalized"))
    /\ Value.t \in {"num", "bool"} =>
         Get(data, "normalized") = IF Whole \in 1..999 THEN Str(str_of_int(Whole)) ELSE NoneV
    /\ Value.t = "str" => Get(data, "normalized") = DigitsLeft

\* "UAP042" gave "042"
C30_LabelRemoved ==
  /\ Applied("normalize_uap")
  /\ Value = Str(<<"U", "A", "P", "0", "4", "2">>)
  /\ Get(data, "normalized") = Str(<<"0", "4", "2">>)

\* C31: the confidence attached to the winning attempt, final_confidence,
\* is within [0, 100] whatever the model reports as extraction_confidence.
C31_FinalConfidenceBounded ==
  "final_confidence" \in DOMAIN best_result =>
    /\ best_result["final_confidence"].t = "num"
    /\ 0 <= best_result["final_confidence"].n
    /\ best_result["final_confidence"].n <= 100 * best_result["final_confidence"].d

\* the same for winning attempts that reported a confidence of 0..100, or
\* none
C31_ReportedInRangeBounded ==
  ("final_confidence" \in DOMAIN best_result /\
   ("extraction_confidence" \in DOMAIN best_result =>
      \/ best_result["extraction_confidence"].t # "num"
      \/ /\ 0 <= best_result["extraction_confidence"].n
         /\ best_result["extraction_confidence"].n <= 100 * best_result["extraction_confidence"].d)) =>
    /\ 0 <= best_result["final_confidence"].n
    /\ best_result["final_confidence"].n <= 100 * best_result["final_confidence"].d

\* C32: safe_json_parse never raises and always returns a mapping, possibly
\* empty, for every text: fenced or not, valid JSON of any top-level type,
\* malformed JSON, empty.
C32_ParseGivesMapping ==
  Applied("safe_json_parse") =>
    /\ faults = <<>>
    /\ Get(data, "parsed").t = "dict"

\* the same for texts that do not decode to a list, a number, a string or
\* a boolean
C32_OtherTextsGiveMapping ==
  (Applied("safe_json_parse") /\
   (Get(Argument, "text").kind = "json" => Get(Argument, "text").val.t \in {"dict", "none"})) =>
    /\ faults = <<>>
    /\ Get(data, "parsed").t = "dict"

\* C33: in the record of every successful Kosu run Equipe is null or a
\* Roman numeral I..X; a team written as a digit 1..10 is converted at
\* whatever pass it entered the record.
C33_EquipeRomanAtReturn ==
  (pc = "returned" /\ doc_type = "Kosu" /\ Get(result, "data").t = "dict") =>
    Get(Returned, "Equipe") \in {NoneV} \cup {Str(Romans[n]) : n \in 1..10}

\* the same for runs that reached post_process_kosu and made no
\* re-extraction call after it
C33_PostProcessedEquipeRoman ==
  (pc = "returned" /\ doc_type = "Kosu" /\ Get(result, "data").t = "dict" /\
   HasRun("post_process_kosu") /\
   ~\E i \in 1..Len(calls) : calls[i].pass = "targeted_field_reextraction") =>
    Get(Returned, "Equipe") \in {NoneV} \cup {Str(Romans[n]) : n \in 1..10}

----------------------------------------------------------------------------
(* Batch processing: process_pdf_pages_background and the session it fills *)

\* the largest batch explored
MaxPages == 2

\* the document types that start_batch_processing accepts
BatchTypes == {"Rebut", "NPT", "Kosu"}

\* what extract_data_from_image returns for one page of the batch: a
\* record or one of its error payloads
PageData == "extraction_confidence" :> Num(80) @@ "final_confidence" :> Num(80)

PageWrappers(dt) ==
  {success_payload(PageData, <<dt, " extraction complete">>),
   typed_error_payload(<<"Primary extraction failed">>, dt),
   critical_error_payload(dt)}

\* thread 0 is process_pdf_pages_background, thread p > 0 the
\* process_single_page of page p; read is the counter value loaded by the
\* += 1 in progress
Thread(at, wrapper) == [pc |-> at, wrapper |-> wrapper, read |-> 0]

BatchInit ==
  /\ doc_type \in BatchTypes
  /\ image = "ok"
  /\ pc = "batch"
  /\ data = EmptyDict
  /\ attempt = 0
  /\ best_result = EmptyDict
  /\ best_confidence = 0
  /\ attempts = <<>>
  /\ calls = <<>>
  /\ passes = <<>>
  /\ faults = <<>>
  /\ result = EmptyDict
  /\ response = EmptyDict
  /\ \E n \in 1..MaxPages :
       /\ session = BatchProcessingSession(n)
       /\ workers = [p \in 0..n |-> Thread(IF p = 0 THEN "start" ELSE "queued", EmptyDict)]
  /\ database = {}

Pages == 1..session.total_pages

\* one step of a thread of the batch
BatchStep(s, w, db) ==
  /\ session' = s
  /\ workers' = w
  /\ database' = db
  /\ UNCHANGED <<doc_type, image, pc, data, attempt, best_result, best_confidence,
                 attempts, calls, passes, faults, result, response>>

At(p, at) == [workers EXCEPT ![p].pc = at]

\* the overall status update that ends add_success and add_error
overall_status(s) ==
  IF s.completed_pages + s.failed_pages >= s.total_pages
  THEN [s EXCEPT !.status = IF s.completed_pages > 0 THEN "completed" ELSE "failed"]
  ELSE s

\* session.to_dict()['progress_percentage']
progress_percentage(s) ==
  IF s.total_pages > 0
  THEN ((s.completed_pages + s.failed_pages) * 100) \div s.total_pages ELSE 0

\* update_status('processing') and the submission of every page to the pool
StartProcessing ==
  /\ workers[0].pc = "start"
  /\ BatchStep([session EXCEPT !.status = "processing"],
               [p \in DOMAIN workers |-> [workers[p] EXCEPT !.pc = IF p = 0 THEN "wait"
                                                                 ELSE "extract"]],
               database)

\* wrapper = extract_data_from_image(...); an empty wrapper raises
ExtractPage(p) ==
  /\ workers[p].pc = "extract"
  /\ \E w \in PageWrappers(doc_type) :
       BatchStep(session,
                 [workers EXCEPT ![p].wrapper = w,
                                 ![p].pc = IF DOMAIN w = {} THEN "add_error" ELSE "create"],
                 database)

\* document = Model.create(document_data), which stores the document or
\* raises
CreateDocument(p) ==
  /\ workers[p].pc = "create"
  /\ \/ BatchStep(session, At(p, "add_success"), database \cup {p})
     \/ BatchStep(session, At(p, "add_error"), database)

\* self.completed_pages += 1: the load
AddSuccessRead(p) ==
  /\ workers[p].pc = "add_success"
  /\ BatchStep(session,
               [workers EXCEPT ![p].read = session.completed_pages,
                               ![p].pc = "add_success_store"],
               database)

\* self.completed_pages += 1: the store; then doc_info is built from
\* extraction_data, which raises when extraction_data is None, and appended
AddSuccessWrite(p) ==
  /\ workers[p].pc = "add_success_store"
  /\ LET inner == Get(workers[p].wrapper, "data")
         counted == [session EXCEPT !.completed_pages = workers[p].read + 1]
     IN IF inner.t # "dict"
        THEN BatchStep(counted, At(p, "add_error"), database)
        ELSE BatchStep([counted EXCEPT !.documents = Append(@, [page |-> p, id |-> p])],
                       At(p, "add_success_status"), database)

AddSuccessStatus(p) ==
  /\ workers[p].pc = "add_success_status"
  /\ BatchStep(overall_status(session), At(p, "done"), database)

\* self.failed_pages += 1: the load
AddErrorRead(p) ==
  /\ workers[p].pc = "add_error"
  /\ BatchStep(session,
               [workers EXCEPT ![p].read = session.failed_pages,
                               ![p].pc = "add_error_store"],
               database)

\* self.failed_pages += 1: the store; then the error is appended
AddErrorWrite(p) ==
  /\ workers[p].pc = "add_error_store"
  /\ BatchStep([session EXCEPT !.failed_pages = workers[p].read + 1,
                               !.errors = Append(@, [page |-> p])],
               At(p, "add_error_status"), database)

AddErrorStatus(p) ==
  /\ workers[p].pc = "add_error_status"
  /\ BatchStep(overall_status(session), At(p, "done"), database)

AllDone == \A p \in Pages : workers[p].pc = "done"

\* the final status update, once the pool has joined every page
FinalStatusUpdate ==
  /\ workers[0].pc = "wait"
  /\ AllDone
  /\ BatchStep([session EXCEPT !.status = IF session.completed_pages > 0 THEN "completed"
                                          ELSE "failed"],
               At(0, "finished"), database)

\* the view cancel_batch_processing, at any moment
CancelBatchProcessing ==
  /\ session.status \notin {"completed", "failed"}
  /\ BatchStep([session EXCEPT !.status = "cancelled"], workers, database)

ExtractPages == \E p \in Pages : ExtractPage(p)
CreateDocuments == \E p \in Pages : CreateDocument(p)
AddSuccessReads == \E p \in Pages : AddSuccessRead(p)
AddSuccessWrites == \E p \in Pages : AddSuccessWrite(p)
AddSuccessStatuses == \E p \in Pages : AddSuccessStatus(p)
AddErrorReads == \E p \in Pages : AddErrorRead(p)
AddErrorWrites == \E p \in Pages : AddErrorWrite(p)
AddErrorStatuses == \E p \in Pages : AddErrorStatus(p)

BatchNext ==
  \/ StartProcessing
  \/ ExtractPages
  \/ CreateDocuments
  \/ AddSuccessReads
  \/ AddSuccessWrites
  \/ AddSuccessStatuses
  \/ AddErrorReads
  \/ AddErrorWrites
  \/ AddErrorStatuses
  \/ FinalStatusUpdate
  \/ CancelBatchProcessing

SpecBatch == BatchInit /\ [][BatchNext]_vars

----------------------------------------------------------------------------
(* The properties of the batch session *)

Counted34 == session.completed_pages + session.failed_pages

\* C34: in a batch whose pages are processed by concurrent workers, every
\* page is counted exactly once under every interleaving: when all workers
\* have finished, completed_pages + failed_pages = total_pages, and the
\* progress never exceeds 100%
C34_EveryPageCountedOnce ==
  /\ (workers[0].pc \in {"wait", "finished"} /\ AllDone) => Counted34 = session.total_pages
  /\ progress_percentage(session) <= 100

\* with pages that all come back with a record, no page is counted twice
\* (the progress stays within 100%), and yet a page can be lost
C34_RecordsNeverOvercount ==
  (\A p \in Pages : "error" \notin DOMAIN workers[p].wrapper)
    => Counted34 <= session.total_pages

\* page p came back from extract_data_from_image with an error payload
ErrorPage(p) == "error" \in DOMAIN workers[p].wrapper

NothingExtracted == \A p \in Pages : ErrorPage(p)

\* C35: a page whose extract_data_from_image call returns an error payload
\* is recorded as failed and only as failed: no document is persisted for
\* it, completed_pages is not incremented for it, and a session in which no
\* page was extracted ends with status 'failed'
C35_ErrorPayloadOnlyFailed ==
  /\ \A p \in Pages : ErrorPage(p) => p \notin database
  /\ NothingExtracted => session.completed_pages = 0
  /\ (workers[0].pc = "finished" /\ NothingExtracted) => session.status = "failed"

\* what does hold of such a page: once its worker is done it is in the
\* errors of the session, and never in its documents
C35_ErrorPayloadRecordedFailed ==
  \A p \in Pages :
    ErrorPage(p) =>
      /\ workers[p].pc = "done" => \E i \in 1..Len(session.errors) : session.errors[i].page = p
      /\ \A i \in 1..Len(session.documents) : session.documents[i].page # p

\* a step that leaves a cancelled session cancelled, or at least neither
\* completed nor failed
StaysCancelled ==
  session.status = "cancelled" => session'.status \notin {"completed", "failed"}

\* C36: once cancel_batch_processing has set the status of a session to
\* 'cancelled', the status stays 'cancelled': no later step of the
\* background processing (add_success, add_error, the final status update)
\* changes it to 'completed' or 'failed'
C36_CancelledStays == [][StaysCancelled]_vars

NotCancelledLate ==
  session.status \in {"completed", "failed"} => session'.status # "cancelled"

\* the converse does hold: a session that is completed or failed is not
\* cancelled any more
C36_FinishedNotCancelled == [][NotCancelledLate]_vars

----------------------------------------------------------------------------
(* The retry loop, the bound on the model calls, the header corrections and
   the re-extraction of cleared fields *)

\* at the return, every failed primary call but the last allowed one was
\* followed by another primary call
FailedPrimaryRetried ==
  \A i \in PrimaryCalls : (Failed(calls[i]) /\ i <= max_retries) => (i + 1) \in PrimaryCalls

\* C37: for every document type, Défauts included, the primary extraction
\* goes through the confidence-retry loop: a failed primary attempt (no
\* response, unparseable output) is followed by another primary attempt,
\* up to max_retries further attempts, before the page is declared failed
C37_PrimaryRetriedForAllTypes == pc = "returned" => FailedPrimaryRetried

\* for the types that are not handed to extract_defauts_multi this holds
C37_PrimaryRetriedInLoop ==
  (pc = "returned" /\ doc_type \notin DefautsTypes) => FailedPrimaryRetried

\* three failed primary attempts were made for a Kosu page
C37_ThreeFailedAttempts ==
  /\ pc = "returned"
  /\ doc_type = "Kosu"
  /\ Cardinality(PrimaryCalls) = max_retries + 1
  /\ \A i \in PrimaryCalls : Failed(calls[i])

CallsOf(p) == {i \in 1..Len(calls) : calls[i].pass = p}

Invocations(p) == {k \in 1..Len(passes) : passes[k] = p}

\* the distinct fields that the flagged lines of the correction log name
FlaggedFields ==
  LET log == Get(data, "cross_validation_corrections").rows IN
  {f \in ReextractableFields :
     \E i \in 1..Len(log) :
       /\ log[i]["tag"].s[1] \in FlaggedTags
       /\ \E j \in 1..Len(log[i]["mentions"].s) : log[i]["mentions"].s[j] = f}

InVerifyKosuHeader == pc \in {"verify_kosu_header", "verify_kosu_header_call"}

OnlyHeaderChanged ==
  InVerifyKosuHeader =>
    /\ DOMAIN data' \ HeaderFieldSet = DOMAIN data \ HeaderFieldSet
    /\ \A k \in DOMAIN data \ HeaderFieldSet : data'[k] = data[k]

\* C39: verify_kosu_header changes no key of the record other than the
\* seven header fields, whatever list of corrections the model returns
C39_OnlyHeaderFieldsChanged == [][OnlyHeaderChanged]_vars

NoKeyAdded ==
  InVerifyKosuHeader => DOMAIN data' \ HeaderFieldSet = DOMAIN data \ HeaderFieldSet

\* what does hold: beside the header fields verify_kosu_header adds no key
\* and removes none
C39_NoKeyAddedOrRemoved == [][NoKeyAdded]_vars

CorrectionLog == Get(data, "cross_validation_corrections").rows

\* the template fields that cross_validate_fields cleared as invalid (a
\* line INVALID naming the field, or INVALID TEAM ID for Equipe), and the
\* line name it cleared as a duplicate of the line code
ClearedAsInvalid ==
  {f \in {"Equipe", "Nom Ligne", "Code ligne"} :
     \E i \in 1..Len(CorrectionLog) :
       \/ CorrectionLog[i]["tag"].s = <<"INVALID">> /\ CorrectionLog[i]["mentions"].s = <<f>>
       \/ CorrectionLog[i]["tag"].s = <<"INVALID TEAM ID">> /\ f = "Equipe"}

ClearedAsDuplicate ==
  {f \in {"Nom Ligne"} :
     \E i \in 1..Len(CorrectionLog) : CorrectionLog[i]["tag"].s = <<"DUPLICATE">>}

\* the fields for which the re-extraction about to start calls the model
Reextracted == {problem_fields(data)[i] : i \in 1..Len(problem_fields(data))}

AtReextraction == pc = "targeted_field_reextraction" /\ doc_type = "Kosu"

\* C40: whenever cross-field validation clears a Kosu field that has a
\* narrow prompt template (Equipe, Nom Ligne, Code ligne) because its value
\* is invalid or duplicated, the pipeline issues a targeted re-extraction
\* call for that field before the final sanity check
C40_ClearedFieldsReextracted ==
  AtReextraction => (ClearedAsInvalid \cup ClearedAsDuplicate) \subseteq Reextracted

\* what does hold: a line field cleared as invalid is re-extracted
C40_InvalidLineFieldsReextracted ==
  AtReextraction => (ClearedAsInvalid \ {"Equipe"}) \subseteq Reextracted
=============================================================================
